---- MODULE Spec2Model ----
(***************************************************************************)
(* Arx5CartesianController: the background servo thread, its safety        *)
(* checks, command shaping, emergency state and the external callers.      *)
(*                                                                         *)
(* Units.  Joint angles: mrad.  Joint and gripper torques: 0.01 N*m.  Motor *)
(* currents: 0.01 A.  Gripper opening: micrometres.  Time: ms.  Gains: 0.1.    *)
(* EEF pose: mm for x,y,z and mrad for roll,pitch,yaw.                     *)
(* Vectors are 1-based: joint i of the model is index i-1 of the code.     *)
(***************************************************************************)
EXTENDS Integers, Sequences, FiniteSets, TLC

(***************************************************************************)
(* Bounds of the model                                                     *)
(***************************************************************************)
\* the clock reading stops advancing once it has reached MaxNow
MaxNow == 71

(***************************************************************************)
(* Configuration tables (config.h)                                         *)
(***************************************************************************)
joint_dof == 6
Joints == 1..joint_dof
joint_pos_min == <<-3140, -50, -100, -1600, -1570, -2000>>
joint_pos_max == <<2618, 3140, 3240, 1550, 1570, 2000>>
\* rad/s = mrad/ms
joint_vel_max == <<3, 2, 2, 2, 3, 3>>
joint_torque_max == <<3000, 4000, 3000, 1500, 1000, 1000>>
\* 0.6 m/s and 1.8 rad/s, in 0.1 mm/ms and 0.1 mrad/ms
ee_vel_max == <<6, 6, 6, 18, 18, 18>>
\* 0.1 m/s = 100 um/ms
gripper_vel_max == 100
gripper_torque_max == 150
gripper_width == 85000
\* 4.8 rad
gripper_open_readout == 4800
motor_id == <<1, 2, 4, 5, 6, 7>>
RobotModels == {"X5", "L5"}
motor_type(model) ==
    IF model = "X5"
    THEN <<"EC_A4310", "EC_A4310", "EC_A4310", "DM_J4310", "DM_J4310", "DM_J4310">>
    ELSE <<"DM_J4340", "DM_J4340", "DM_J4340", "DM_J4310", "DM_J4310", "DM_J4310">>
default_kp == <<1500, 1500, 2000, 600, 300, 300>>
default_kd == <<50, 50, 50, 10, 10, 10>>
default_gripper_kp == 300
default_gripper_kd == 2
over_current_cnt_max == 20
\* 0.005 s
controller_dt == 5

(***************************************************************************)
(* Constants of cartesian_controller.cpp                                   *)
(***************************************************************************)
\* torque constants, in 1/1000 (N*m/A)
torque_constant_EC_A4310 == 1400
torque_constant_DM_J4310 == 424
torque_constant_DM_J4340 == 1000
\* 0.2 rad
error_threshold == 200
\* 3.14 rad, the tolerance of _check_joint_state_sanity
sanity_pos_tolerance == 3140
\* 0.005 m
gripper_width_tolerance == 5000
\* slot of get_motor_msg() read for the position and velocity of each joint
pos_slot == <<0, 1, 3, 4, 5, 6>>
gripper_slot == 7
MotorSlots == 0..9

(***************************************************************************)
(* Value structs (JointState, EEFState, Gain) and arithmetic helpers       *)
(***************************************************************************)
Abs(x) == IF x < 0 THEN -x ELSE x

\* a / b rounded toward zero, as the fixed-point reading of a double quotient
quot(a, b) == IF a >= 0 THEN a \div b ELSE -((-a) \div b)

Vec6Zero == <<0, 0, 0, 0, 0, 0>>

IsZero(v) == \A i \in Joints : v[i] = 0

\* JointState()
JointStateZero ==
    [timestamp |-> 0, pos |-> Vec6Zero, vel |-> Vec6Zero, torque |-> Vec6Zero,
     gripper_pos |-> 0, gripper_vel |-> 0, gripper_torque |-> 0]

\* Gain()
GainZero == [kp |-> Vec6Zero, kd |-> Vec6Zero, gripper_kp |-> 0, gripper_kd |-> 0]

(***************************************************************************)
(* Telemetry decoding (_send_recv, receive half)                           *)
(***************************************************************************)
\* torque of arm joint i from the motor currents
decode_torque(model, motor_msg, i) ==
    LET cur == motor_msg[motor_id[i]].current_actual_float
        ty == motor_type(model)[i]
    IN  IF ty = "EC_A4310"
        THEN quot(quot(cur * torque_constant_EC_A4310, 1000) * torque_constant_EC_A4310, 1000)
        ELSE IF ty = "DM_J4310"
        THEN quot(cur * torque_constant_DM_J4310, 1000)
        ELSE quot(cur * torque_constant_DM_J4340, 1000)

\* _joint_state as published from one get_motor_msg() snapshot at time t
decode_joint_state(model, motor_msg, t) ==
    [timestamp |-> t,
     pos |-> [i \in Joints |-> motor_msg[pos_slot[i]].angle_actual_rad],
     vel |-> [i \in Joints |-> motor_msg[pos_slot[i]].speed_actual_rad],
     torque |-> [i \in Joints |-> decode_torque(model, motor_msg, i)],
     gripper_pos |->
        quot(motor_msg[gripper_slot].angle_actual_rad * gripper_width, gripper_open_readout),
     gripper_vel |->
        quot(motor_msg[gripper_slot].speed_actual_rad * gripper_width, gripper_open_readout),
     gripper_torque |->
        quot(motor_msg[gripper_slot].current_actual_float * torque_constant_DM_J4310, 1000)]


(***************************************************************************)
(* Command shaping (_update_output_cmd)                                    *)
(***************************************************************************)
\* variant: the commanded step is never limited
clip_joint_vel_off(in_cmd, prev, g, js, i) ==
    IF g.kp[i] > 0 THEN in_cmd.pos[i] ELSE js.pos[i]

\* joint velocity clipping, or hold at the measured position when kp is 0
clip_joint_vel(in_cmd, prev, g, js, i) ==
    IF g.kp[i] > 0
    THEN LET delta_pos == in_cmd.pos[i] - prev.pos[i]
             max_step == joint_vel_max[i] * controller_dt
         IN  IF Abs(delta_pos) > max_step
             THEN prev.pos[i] + (IF delta_pos > 0 THEN max_step ELSE -max_step)
             ELSE in_cmd.pos[i]
    ELSE js.pos[i]

\* variant: the position is passed through unclipped
clip_joint_pos_off(p, i) == p

\* joint position clipping
clip_joint_pos(p, i) ==
    IF p < joint_pos_min[i] THEN joint_pos_min[i]
    ELSE IF p > joint_pos_max[i] THEN joint_pos_max[i]
    ELSE p

\* gripper velocity clipping, or hold at the measured opening when gripper_kp is 0
clip_gripper_vel(in_cmd, prev, g, js) ==
    IF g.gripper_kp > 0
    THEN LET gripper_delta_pos == in_cmd.gripper_pos - prev.gripper_pos
             max_step == gripper_vel_max * controller_dt
         IN  IF Abs(gripper_delta_pos) > max_step
             THEN prev.gripper_pos + (IF gripper_delta_pos > 0 THEN max_step ELSE -max_step)
             ELSE in_cmd.gripper_pos
    ELSE js.gripper_pos

\* variant: only the upper end of the gripper range is enforced
clip_gripper_pos_upper_only(p) == IF p > gripper_width THEN gripper_width ELSE p

\* gripper position clipping
clip_gripper_pos(p) ==
    IF p < 0 THEN 0
    ELSE IF p > gripper_width THEN gripper_width
    ELSE p

\* variant: the gripper command is held only beyond the full torque limit
gripper_stall_at_limit(p, prev, js) ==
    IF Abs(js.gripper_torque) > gripper_torque_max
    THEN LET sign == IF js.gripper_torque > 0 THEN 1 ELSE -1
             delta_pos == p - prev.gripper_pos
         IN  IF delta_pos * sign > 0 THEN prev.gripper_pos ELSE p
    ELSE p

\* the gripper command is not updated while the gripper pushes against a stall
gripper_stall(p, prev, js) ==
    IF 2 * Abs(js.gripper_torque) > gripper_torque_max
    THEN LET sign == IF js.gripper_torque > 0 THEN 1 ELSE -1
             delta_pos == p - prev.gripper_pos
         IN  IF delta_pos * sign > 0 THEN prev.gripper_pos ELSE p
    ELSE p

\* variant: only positive torques are limited
clip_torque_upper_only(tq, i) ==
    IF tq > joint_torque_max[i] THEN joint_torque_max[i] ELSE tq

\* torque clipping
clip_torque(tq, i) ==
    IF tq > joint_torque_max[i] THEN joint_torque_max[i]
    ELSE IF tq < -joint_torque_max[i] THEN -joint_torque_max[i]
    ELSE tq

\* the new _output_joint_cmd, from _input_joint_cmd, the previous output,
\* _gain and _joint_state
update_output_cmd(in_cmd, prev, g, js) ==
    [in_cmd EXCEPT
        !.pos = [i \in Joints |-> clip_joint_pos(clip_joint_vel(in_cmd, prev, g, js, i), i)],
        !.gripper_pos =
            gripper_stall(clip_gripper_pos(clip_gripper_vel(in_cmd, prev, g, js)), prev, js),
        !.torque = [i \in Joints |-> clip_torque(in_cmd.torque[i], i)]]

(***************************************************************************)
(* Safety checks                                                           *)
(***************************************************************************)
\* the over-current condition of _over_current_protection
over_current(js) ==
    \/ \E i \in Joints : Abs(js.torque[i]) > joint_torque_max[i]
    \/ Abs(js.gripper_torque) > gripper_torque_max

\* variant: the counter is never reset
next_over_current_cnt_no_reset(cnt, js) == IF over_current(js) THEN cnt + 1 ELSE cnt

\* _over_current_cnt after one call of _over_current_protection
next_over_current_cnt(cnt, js) == IF over_current(js) THEN cnt + 1 ELSE 0

\* variant: the gripper opening is not checked
sanity_violated_arm_only(js, in_cmd) ==
    \E i \in Joints :
        \/ Abs(js.pos[i]) > joint_pos_max[i] + sanity_pos_tolerance
        \/ Abs(js.pos[i]) < joint_pos_min[i] - sanity_pos_tolerance
        \/ Abs(in_cmd.pos[i]) > joint_pos_max[i] + sanity_pos_tolerance
        \/ Abs(in_cmd.pos[i]) < joint_pos_min[i] - sanity_pos_tolerance
        \/ Abs(js.torque[i]) > 100 * joint_torque_max[i]

\* the condition under which _check_joint_state_sanity enters emergency
sanity_violated(js, in_cmd) ==
    \/ \E i \in Joints :
        \/ Abs(js.pos[i]) > joint_pos_max[i] + sanity_pos_tolerance
        \/ Abs(js.pos[i]) < joint_pos_min[i] - sanity_pos_tolerance
        \/ Abs(in_cmd.pos[i]) > joint_pos_max[i] + sanity_pos_tolerance
        \/ Abs(in_cmd.pos[i]) < joint_pos_min[i] - sanity_pos_tolerance
        \/ Abs(js.torque[i]) > 100 * joint_torque_max[i]
    \/ js.gripper_pos < -gripper_width_tolerance
    \/ js.gripper_pos > gripper_width + gripper_width_tolerance

\* the damping gain of _enter_emergency_state (kd[3] * 1.5 in units of 0.1)
emergency_gain ==
    [GainZero EXCEPT
        !.kd = [i \in Joints |->
                  IF i \in {2, 3} THEN default_kd[i] * 3
                  ELSE IF i = 4 THEN (default_kd[i] * 3) \div 2
                  ELSE default_kd[i]]]

\* variant: an error equal to the threshold is refused too
unsafe_gain_transition_ge(g, new_gain, js, out_cmd) ==
    /\ IsZero(g.kp)
    /\ ~IsZero(new_gain.kp)
    /\ \E i \in Joints : Abs(js.pos[i] - out_cmd.pos[i]) >= error_threshold

\* the unsafe kp transition refused by set_gain
unsafe_gain_transition(g, new_gain, js, out_cmd) ==
    /\ IsZero(g.kp)
    /\ ~IsZero(new_gain.kp)
    /\ \E i \in Joints : Abs(js.pos[i] - out_cmd.pos[i]) > error_threshold

(***************************************************************************)
(* External collaborators: moving-average filter                           *)
(***************************************************************************)
moving_window_size == 1

RECURSIVE SumVec(_, _)
SumVec(w, n) == IF n = 0 THEN Vec6Zero
                ELSE LET r == SumVec(w, n - 1) IN [i \in Joints |-> r[i] + w[n][i]]

\* MovingAverage6d: the window after filter(x) was called
filter_push(w, x) == IF Len(w) < moving_window_size THEN Append(w, x)
                     ELSE Append(Tail(w), x)

\* MovingAverage6d::filter: the mean over the window (zeros until it is full)
filter_mean(w) == LET sum == SumVec(w, Len(w))
                  IN  [i \in Joints |-> quot(sum[i], moving_window_size)]

(***************************************************************************)
(* Inputs of the model                                                     *)
(***************************************************************************)
Msg(a, c) == [angle_actual_rad |-> a, speed_actual_rad |-> 0, current_actual_float |-> c]

\* the arm at rest inside its limits, the second joint close to its lower
\* limit, the gripper almost closed
NominalMsg ==
    [s \in MotorSlots |->
        IF s = 1 THEN Msg(-5, 0)
        ELSE IF s = gripper_slot THEN Msg(48, 0)
        ELSE Msg(0, 0)]

WithAngle(s, a) == [NominalMsg EXCEPT ![s].angle_actual_rad = a]
WithCurrent(s, c) == [NominalMsg EXCEPT ![s].current_actual_float = c]

PoseHome == <<250, 0, 160, 0, 0, 0>>
PoseB == <<300, 100, 200, 0, 500, 0>>
PoseNearZero == <<5, 0, 0, 0, 0, 0>>
PoseC == <<200, -100, 300, 0, 0, 0>>

EEFState(t, pose, gpos, gvel) ==
    [timestamp |-> t, pose_6d |-> pose, gripper_pos |-> gpos,
     gripper_vel |-> gvel, gripper_torque |-> 0]

\* results of Arx5Solver::forward_kinematics during init
FKResults == {PoseHome}

\* Gain() with kd = default_kd, the gain _init_robot sets
damping_gain == [GainZero EXCEPT !.kd = default_kd]

default_gain ==
    [kp |-> default_kp, kd |-> default_kd,
     gripper_kp |-> default_gripper_kp, gripper_kd |-> default_gripper_kd]

\* for (int i = 0; i <= 10; ++i) in _init_robot
warm_up_last == 10
\* sleep_ms(5) in the warm-up loop, and at least 1 ms of bus pacing in _send_recv
warm_up_sleep_ms == 5
send_recv_ms == 1

\* 11 warm-up calls of _send_recv in _init_robot, each followed by sleep_ms(5)
\* and preceded by at least 1 ms of bus pacing
InitNow == 11 * (controller_dt + 1)

\* An environment: the robot models and gravity-compensation settings the
\* controller is built with, the telemetry snapshots get_motor_msg() may
\* return, the gains and EEF commands callers may pass, the results the
\* solver may give, the clock reading at which the clock stops advancing,
\* whether the frames handed to the CAN socket go out, whether the DM
\* motors answer the enable handshake, the poses forward_kinematics may
\* give a caller, and whether a caller whose sleep_ms is over runs before the
\* background thread's next period ends
Environment(models, gravity, msgs, gains, cmds, iks, ids) ==
    [models |-> models, gravity |-> gravity, msgs |-> msgs, gains |-> gains,
     cmds |-> cmds, iks |-> iks, ids |-> ids, horizon |-> MaxNow, sends |-> {TRUE},
     enables |-> {TRUE}, fks |-> FKResults, prompt |-> FALSE]

\* telemetry that trips the protections; a caller that commands a zero pose
ProtectionEnv ==
    Environment(
        RobotModels, {FALSE},
        {NominalMsg,
         \* motor 1 carries 31 A; the gripper motor carries 5 A
         WithCurrent(1, 3100), WithCurrent(gripper_slot, 500),
         \* motor 1 reports 4000 A
         WithCurrent(1, 400000),
         \* the second joint reads joint_pos_max + 3.140 rad, and + 3.141 rad
         WithAngle(1, 6280), WithAngle(1, 6281),
         \* gripper readout below closed: -1.7 mm, and -8.5 mm
         WithAngle(gripper_slot, -96), WithAngle(gripper_slot, -480)},
        {damping_gain},
        {EEFState(0, PoseNearZero, 850, 0)},
        {<<FALSE, Vec6Zero>>, <<TRUE, <<20, -500, 0, 0, 0, 0>>>>},
        {Vec6Zero})

\* an arm whose second joint drifts below its lower limit while kp changes
ShapingEnv ==
    Environment(
        RobotModels, BOOLEAN,
        {NominalMsg,
         \* the second joint has moved by 0.2 rad, and by 0.235 rad
         WithAngle(1, -205), WithAngle(1, -240),
         WithAngle(1, 6281)},
        {damping_gain, default_gain},
        {EEFState(0, PoseHome, 850, 0),
         \* a command stamped before the controller started
         EEFState(InitNow - controller_dt, PoseB, 850, 0)},
        {<<FALSE, Vec6Zero>>, <<TRUE, <<20, -500, 0, 0, 0, 0>>>>},
        {Vec6Zero, <<3500, -4500, 0, 0, 0, 0>>})

\* a gripper read and commanded outside its range, and pushed against a stall
GripperEnv ==
    Environment(
        {"X5"}, {FALSE},
        {NominalMsg,
         \* gripper readout below closed, and above open
         WithAngle(gripper_slot, -96), WithAngle(gripper_slot, 4850),
         \* the gripper motor pushes at more than half its torque limit
         WithCurrent(gripper_slot, -250),
         WithAngle(gripper_slot, -480)},
        {damping_gain, default_gain},
        {EEFState(0, PoseHome, -3000, 5)},
        {<<TRUE, Vec6Zero>>},
        {Vec6Zero})

\* way points stamped two servo periods after the first tick, and 2 ms
\* before the tick four periods after it
WayPointB == EEFState(InitNow + 2 * controller_dt, PoseB, 40850, 0)
WayPointC == EEFState(InitNow + 4 * controller_dt - 2, PoseC, 850, 5)

\* a caller that sends timed way points, and one immediate command, to an arm
\* at rest, until a reading the sanity check rejects; the clock runs four
\* servo periods further than elsewhere
InterpEnv ==
    [Environment(
        {"X5"}, {FALSE},
        {NominalMsg, WithAngle(1, 6281)},
        {default_gain},
        {WayPointB, WayPointC, EEFState(0, PoseC, 20850, 0)},
        {<<TRUE, <<20, -500, 0, 0, 0, 0>>>>},
        {Vec6Zero})
     EXCEPT !.horizon = MaxNow + 4 * controller_dt]

\* sleep_ms(2000) of the destructor
destructor_sleep_ms == 2000

\* an arm at rest under gravity compensation, until a reading the sanity
\* check rejects, whose controller is destroyed during the first tick; the
\* clock runs until the destructor's sleep is over
DestroyEnv ==
    [Environment(
        {"X5"}, {TRUE},
        {NominalMsg, WithAngle(1, 6281)},
        {}, {},
        {<<TRUE, <<20, -500, 0, 0, 0, 0>>>>},
        {<<3500, -4500, 0, 0, 0, 0>>})
     EXCEPT !.horizon = MaxNow + destructor_sleep_ms - controller_dt]

\* std::max(max_pos_error * 2, 0.5) in reset_to_home, the 0.5 s in ms
reset_min_ms == 500
\* sleep_ms(5) and sleep_ms(500) in reset_to_home
reset_step_ms == 5
reset_hold_ms == 500
\* a gain between the damping gain and the default gain
HalfGain ==
    [kp |-> <<700, 700, 1000, 300, 100, 100>>, kd |-> <<20, 20, 20, 10, 10, 10>>,
     gripper_kp |-> 100, gripper_kd |-> 1]

\* a caller that resets the arm to home within the first ticks, from the gain
\* of _init_robot or from a gain it has set; the clock runs until the reset
\* is over
ResetEnv ==
    [Environment(
        {"X5"}, {FALSE},
        {NominalMsg, WithAngle(1, 6281)},
        {HalfGain},
        {},
        {<<TRUE, <<20, -500, 0, 0, 0, 0>>>>},
        {Vec6Zero})
     EXCEPT !.horizon = MaxNow + reset_min_ms + reset_hold_ms, !.prompt = TRUE]

\* sleep_ms(500) in set_to_damping
damping_sleep_ms == 500

\* a caller that sets the default gain and sets the arm to damping within
\* the first ticks, with and without gravity compensation; the clock runs
\* until the call is over
DampingEnv ==
    [Environment(
        {"X5"}, BOOLEAN,
        {NominalMsg, WithAngle(1, 6281)},
        {default_gain},
        {},
        {<<TRUE, <<20, -500, 0, 0, 0, 0>>>>},
        {<<3500, -4500, 0, 0, 0, 0>>})
     EXCEPT !.horizon = MaxNow + damping_sleep_ms + controller_dt, !.prompt = TRUE]

\* a caller whose set_gain is refused after the second joint has moved by
\* 0.24 rad, and who then resets to home or destroys the controller; calls
\* that sleep start within the first two ticks, and the clock runs until the
\* destructor's sleep is over
PauseEnv ==
    [start_by |-> MaxNow] @@
    [Environment(
        {"X5"}, {FALSE},
        {WithAngle(1, -240), WithAngle(1, 6281)},
        {default_gain},
        {},
        {<<TRUE, <<20, -500, 0, 0, 0, 0>>>>},
        {Vec6Zero})
     EXCEPT !.horizon = MaxNow + destructor_sleep_ms, !.prompt = TRUE]

\* no motor position read yet
ZeroMsg == WithAngle(1, 0)

\* construction with DM motors that may not answer the enable handshake, and
\* motors whose position may not have been read
ConstructEnv ==
    [Environment(
        {"X5", "L5"}, {FALSE},
        {NominalMsg, ZeroMsg, WithAngle(1, 6281)},
        {default_gain},
        {EEFState(0, PoseB, 850, 0)},
        {<<TRUE, <<20, -500, 0, 0, 0, 0>>>>},
        {Vec6Zero})
     EXCEPT !.enables = BOOLEAN]

\* a CAN socket that may refuse the frames of a tick, while the arm moves
TransmitEnv ==
    [Environment(
        {"X5"}, {FALSE},
        {NominalMsg, WithAngle(1, -205), WithAngle(1, 6281)},
        {default_gain},
        {EEFState(0, PoseB, 850, 0)},
        {<<TRUE, <<20, -500, 0, 0, 0, 0>>>>},
        {Vec6Zero})
     EXCEPT !.sends = BOOLEAN]

(***************************************************************************)
(* State                                                                   *)
(***************************************************************************)
VARIABLES
    robot_model,                    \* model name given to the constructor
    _gain,
    _input_joint_cmd,
    _output_joint_cmd,
    _joint_state,
    _input_eef_cmd,
    _output_eef_cmd,
    _interp_start_eef_cmd,
    _joint_pos_filter,              \* window of the joint position filter
    _joint_torque_filter,           \* window of the joint torque filter
    _over_current_cnt,
    _background_send_recv_running,
    _destroy_background_threads,
    _enable_gravity_compensation,
    _cmd_mutex,                     \* "free" or "servo": owner of _cmd_mutex
    servo_pc,                       \* position of the background thread
    emergency,                      \* "none", or what called _enter_emergency_state
    now,                            \* get_timestamp(), ms
    caller_pc,                      \* "idle", or the call the caller thread is in
    sent_motor_cmd,                 \* the set-point frames last put on the CAN bus
    sleep_until,                    \* clock reading that ends the caller's sleep_ms, or 0
    transmit_ok,                    \* whether the frames of the last _send_recv went out
    over_current_streak,            \* history: consecutive over-current ticks so far
    unread_eef_cmds,                \* history: commands stored since the last interpolation
    tick_start_cmd,                 \* history: the output commands when the tick began
    last_ik,                        \* history: how inverse kinematics ended in this tick
    enable_DM_motor_ok,             \* whether the enable handshakes of _init_robot succeeded
    init_i,                         \* the loop variable of the warm-up loop of _init_robot
    locals,                         \* the local variables of the call the caller is in
    _input_high_cmd,                \* Arx5HighLevel: the command set_high_cmd stored
    _output_high_cmd,               \* Arx5HighLevel: the command handed to the solver
    _high_state,                    \* Arx5HighLevel: the state get_high_state returns
    high_joint_state,               \* Arx5HighLevel::_joint_state
    _background_gravity_compensation_running,
    low_cmd,                        \* the command last given to _joint_controller
    high_pc,                        \* position of the thread of Arx5HighLevel
    submitted_high_cmd,             \* history: the argument and time of the last set_high_cmd (t = -1: none)
    _state_mutex,                   \* "free" or "servo": owner of _state_mutex
    recv_motor_msg                  \* the snapshot the _send_recv in progress got, or <<>>

vars == <<robot_model, _gain, _input_joint_cmd, _output_joint_cmd,
          _joint_state, _input_eef_cmd, _output_eef_cmd, _interp_start_eef_cmd,
          _joint_pos_filter, _joint_torque_filter, _over_current_cnt,
          _background_send_recv_running, _destroy_background_threads,
          _enable_gravity_compensation, _cmd_mutex, servo_pc, emergency, now,
          caller_pc, sent_motor_cmd, sleep_until, over_current_streak,
          unread_eef_cmds, transmit_ok, tick_start_cmd, last_ik, enable_DM_motor_ok, init_i,
          locals, _input_high_cmd, _output_high_cmd, _high_state, high_joint_state,
          _background_gravity_compensation_running, low_cmd, high_pc,
          submitted_high_cmd, _state_mutex, recv_motor_msg>>

cmd_vars == <<_gain, _input_joint_cmd, _output_joint_cmd, _input_eef_cmd, _output_eef_cmd,
              _interp_start_eef_cmd>>
filter_vars == <<_joint_pos_filter, _joint_torque_filter>>
flag_vars == <<robot_model, _background_send_recv_running, _destroy_background_threads,
               _enable_gravity_compensation>>
caller_vars == <<caller_pc, sleep_until>>
bus_vars == <<sent_motor_cmd>>
tick_vars == <<transmit_ok, tick_start_cmd, last_ik>>
\* inverse kinematics has not failed in this tick
NoIK == [success |-> TRUE, before |-> <<>>]
init_vars == <<enable_DM_motor_ok, init_i>>
\* what no step of the running controller writes
high_vars == <<_input_high_cmd, _output_high_cmd, _high_state, high_joint_state,
               _background_gravity_compensation_running, low_cmd, high_pc,
               submitted_high_cmd>>
recv_vars == <<_state_mutex, recv_motor_msg>>
other_vars == <<init_vars, locals, high_vars, recv_vars>>

\* the clock reading one servo period later
after_sleep(t, horizon) == IF t + controller_dt <= horizon THEN t + controller_dt ELSE t

\* the caller is in a call that sleeps between its steps, and is not asleep
caller_due ==
    /\ caller_pc \in {"reset_set_gain", "reset_set_eef_cmd", "reset_hold",
                      "damping_set_eef_cmd", "damping_sleep"}
    /\ now >= sleep_until

\* the last clock reading at which a caller starts a call that sleeps
start_limit(E) == IF "start_by" \in DOMAIN E THEN E.start_by ELSE E.horizon

\* the clock reading the background thread's sleep cannot pass: the clock
\* waits for a caller that is due, and stops at the start limit while no call
\* is in progress
clock_limit(E) ==
    IF E.prompt /\ caller_due THEN now
    ELSE IF "start_by" \in DOMAIN E /\ caller_pc = "idle" THEN E.start_by
    ELSE E.horizon

\* get_timestamp() on the caller thread: the background thread read `now` in
\* _calc_joint_cmd, and a caller that runs after that reads a later time
get_timestamp == IF servo_pc \in {"update", "send_recv"} THEN now + 1 ELSE now

\* the current a motor is asked for, from the shaped torque
motor_current(model, tq, i) ==
    LET ty == motor_type(model)[i]
    IN  IF ty = "EC_A4310" THEN quot(tq * 1000, torque_constant_EC_A4310)
        ELSE IF ty = "DM_J4310" THEN quot(tq * 1000, torque_constant_DM_J4310)
        ELSE quot(tq * 1000, torque_constant_DM_J4340)

\* variant: the frames carry the gain of _init_robot
send_motor_cmds_with_init_gain(model, g, out_cmd) ==
    [kp |-> damping_gain.kp, kd |-> damping_gain.kd,
     pos |-> out_cmd.pos, vel |-> out_cmd.vel,
     current |-> [i \in Joints |-> motor_current(model, out_cmd.torque[i], i)],
     gripper_kp |-> damping_gain.gripper_kp, gripper_kd |-> damping_gain.gripper_kd,
     gripper_pos |-> quot(out_cmd.gripper_pos * gripper_open_readout, gripper_width)]

\* the seven set-point frames of one _send_recv
send_motor_cmds(model, g, out_cmd) ==
    [kp |-> g.kp, kd |-> g.kd, pos |-> out_cmd.pos, vel |-> out_cmd.vel,
     current |-> [i \in Joints |-> motor_current(model, out_cmd.torque[i], i)],
     gripper_kp |-> g.gripper_kp, gripper_kd |-> g.gripper_kd,
     gripper_pos |-> quot(out_cmd.gripper_pos * gripper_open_readout, gripper_width)]

\* get_eef_state(), with the forward kinematics result fk
get_eef_state(js, fk) ==
    [timestamp |-> js.timestamp, pose_6d |-> fk, gripper_pos |-> js.gripper_pos,
     gripper_vel |-> js.gripper_vel, gripper_torque |-> js.gripper_torque]

\* the state _init_robot leaves behind when the telemetry is NominalMsg throughout
HighState(t, pose, gpos, gvel, gtorque) ==
    [timestamp |-> t, pose_6d |-> pose, gripper_pos |-> gpos,
     gripper_vel |-> gvel, gripper_torque |-> gtorque]

\* HighState()
HighStateZero == HighState(0, Vec6Zero, 0, 0, 0)

\* Arx5HighLevel once its constructor has returned and before the first pass
\* of its thread: the commands and _joint_state are default-constructed, and
\* _high_state holds the pose and gripper readings of the joint controller
InitHighLevel ==
    /\ _input_high_cmd = HighStateZero
    /\ _output_high_cmd = HighStateZero
    /\ \E fk \in FKResults :
          LET low_state == decode_joint_state(robot_model, NominalMsg, 0)
          IN  _high_state = HighState(0, fk, low_state.gripper_pos, low_state.gripper_vel,
                                      low_state.gripper_torque)
    /\ high_joint_state = JointStateZero
    /\ _background_gravity_compensation_running = TRUE
    /\ low_cmd = JointStateZero
    /\ high_pc = "task"
    /\ submitted_high_cmd = [cmd |-> HighStateZero, t |-> -1]

Init(E) ==
    /\ robot_model \in E.models
    /\ _enable_gravity_compensation \in E.gravity
    /\ now = InitNow
    /\ _gain = damping_gain
    /\ _joint_state = decode_joint_state(robot_model, NominalMsg, InitNow - controller_dt)
    /\ _input_joint_cmd = JointStateZero
    /\ _output_joint_cmd =
          update_output_cmd(JointStateZero,
                            update_output_cmd(JointStateZero, JointStateZero, _gain, _joint_state),
                            _gain, _joint_state)
    /\ sent_motor_cmd = send_motor_cmds(robot_model, _gain, _output_joint_cmd)
    /\ \E fk \in FKResults :
          /\ _input_eef_cmd = get_eef_state(_joint_state, fk)
          /\ _output_eef_cmd = get_eef_state(_joint_state, fk)
          /\ _interp_start_eef_cmd = get_eef_state(_joint_state, fk)
    /\ _joint_pos_filter = <<>>
    /\ _joint_torque_filter = <<>>
    /\ _over_current_cnt = 0
    /\ _background_send_recv_running = TRUE
    /\ _destroy_background_threads = FALSE
    /\ _cmd_mutex = "free"
    /\ servo_pc = "loop"
    /\ emergency = "none"
    /\ caller_pc = "idle"
    /\ sleep_until = 0
    /\ over_current_streak = 0
    /\ unread_eef_cmds = <<>>
    /\ transmit_ok = TRUE
    /\ tick_start_cmd = <<>>
    /\ last_ik = NoIK
    /\ enable_DM_motor_ok = TRUE
    /\ init_i = warm_up_last + 1
    /\ locals = <<>>
    /\ InitHighLevel
    /\ _state_mutex = "free"
    /\ recv_motor_msg = <<>>

(***************************************************************************)
(* EEF interpolation and joint command (_calc_joint_cmd)                   *)
(***************************************************************************)
\* variant: no interpolation, the target at once
lerp_to_target(a, b, t0, t1, t) == b

\* start * (1 - alpha) + target * alpha, alpha = (t - t0) / (t1 - t0)
lerp(a, b, t0, t1, t) == quot(a * (t1 - t) + b * (t - t0), t1 - t0)

\* whether the assert()s of the interpolation branch hold
interp_asserts(in_eef, start_eef, t) ==
    /\ t >= start_eef.timestamp
    /\ in_eef.timestamp > start_eef.timestamp

\* variant: a command with timestamp 0 does not move the output
interpolate_eef_keeps_output(in_eef, start_eef, out_eef, t) ==
    IF in_eef.timestamp = 0 THEN [out_eef EXCEPT !.timestamp = t]
    ELSE IF t > in_eef.timestamp THEN [in_eef EXCEPT !.timestamp = t]
    ELSE [out_eef EXCEPT
            !.pose_6d = [k \in 1..6 |-> lerp(start_eef.pose_6d[k], in_eef.pose_6d[k],
                                            start_eef.timestamp, in_eef.timestamp, t)],
            !.gripper_pos = lerp(start_eef.gripper_pos, in_eef.gripper_pos,
                                 start_eef.timestamp, in_eef.timestamp, t),
            !.timestamp = t]

\* variant: the output stays where the interpolation left it
interpolate_eef_never_holds(in_eef, start_eef, out_eef, t) ==
    IF in_eef.timestamp = 0 THEN [in_eef EXCEPT !.timestamp = t]
    ELSE IF t > in_eef.timestamp THEN [out_eef EXCEPT !.timestamp = t]
    ELSE [out_eef EXCEPT
            !.pose_6d = [k \in 1..6 |-> lerp(start_eef.pose_6d[k], in_eef.pose_6d[k],
                                            start_eef.timestamp, in_eef.timestamp, t)],
            !.gripper_pos = lerp(start_eef.gripper_pos, in_eef.gripper_pos,
                                 start_eef.timestamp, in_eef.timestamp, t),
            !.timestamp = t]

\* the new _output_eef_cmd at time t
interpolate_eef(in_eef, start_eef, out_eef, t) ==
    IF in_eef.timestamp = 0 THEN [in_eef EXCEPT !.timestamp = t]
    ELSE IF t > in_eef.timestamp THEN [in_eef EXCEPT !.timestamp = t]
    ELSE [out_eef EXCEPT
            !.pose_6d = [k \in 1..6 |-> lerp(start_eef.pose_6d[k], in_eef.pose_6d[k],
                                            start_eef.timestamp, in_eef.timestamp, t)],
            !.gripper_pos = lerp(start_eef.gripper_pos, in_eef.gripper_pos,
                                 start_eef.timestamp, in_eef.timestamp, t),
            !.timestamp = t]

\* variant: no zero-pose check
pose_near_zero_never(pose) == FALSE

\* pose_6d.isZero() || pose_6d.norm() < 0.01
pose_near_zero(pose) ==
    LET sq == pose[1]*pose[1] + pose[2]*pose[2] + pose[3]*pose[3]
              + pose[4]*pose[4] + pose[5]*pose[5] + pose[6]*pose[6]
    IN  sq < 10 * 10

\* variant: the solver's result is stored as it is
clamp_joint_pos_off(q) == q

\* cwiseMax(joint_pos_min).cwiseMin(joint_pos_max)
clamp_joint_pos(q) ==
    [i \in Joints |->
        LET lo == IF q[i] > joint_pos_min[i] THEN q[i] ELSE joint_pos_min[i]
        IN  IF lo < joint_pos_max[i] THEN lo ELSE joint_pos_max[i]]

(***************************************************************************)
(* The background thread (_background_send_recv)                           *)
(***************************************************************************)
process_alive == servo_pc \notin {"terminated", "aborted"}

\* the assignments _enter_emergency_state makes before its loop; set_gain
\* never refuses the damping gain because its kp is zero
enter_emergency_state(cause, in_cmd) ==
    /\ _gain' = emergency_gain
    /\ _input_joint_cmd' = [in_cmd EXCEPT !.vel = Vec6Zero, !.torque = Vec6Zero]
    /\ emergency' = cause
    /\ servo_pc' = "emergency"

\* variant: the loop never ends
loop_condition_true(destroy) == TRUE

\* while (!_destroy_background_threads)
loop_condition(destroy) == ~destroy

\* variant: the tick runs whatever the flag is
tick_enabled_always(running) == TRUE

\* if (_background_send_recv_running)
tick_enabled(running) == running

\* one evaluation of the loop condition and of the running flag
_background_send_recv(E) ==
    /\ servo_pc = "loop"
    /\ IF ~loop_condition(_destroy_background_threads)
       THEN servo_pc' = "exited" /\ now' = now
       ELSE IF tick_enabled(_background_send_recv_running)
       THEN servo_pc' = "over_current" /\ now' = now
       ELSE servo_pc' = "loop" /\ now' = after_sleep(now, clock_limit(E))
    /\ tick_start_cmd' =
          IF loop_condition(_destroy_background_threads)
                /\ tick_enabled(_background_send_recv_running)
          THEN <<_output_joint_cmd, _output_eef_cmd>>
          ELSE tick_start_cmd
    /\ UNCHANGED <<transmit_ok, last_ik>>
    /\ UNCHANGED <<cmd_vars, filter_vars, flag_vars, caller_vars, bus_vars, _joint_state,
                   _over_current_cnt, _cmd_mutex, emergency, over_current_streak,
                   unread_eef_cmds>>
    /\ UNCHANGED other_vars

_over_current_protection ==
    /\ servo_pc = "over_current"
    /\ over_current_streak' = IF over_current(_joint_state) THEN over_current_streak + 1 ELSE 0
    /\ _over_current_cnt' = next_over_current_cnt(_over_current_cnt, _joint_state)
    /\ IF over_current(_joint_state) /\ _over_current_cnt' > over_current_cnt_max
       THEN enter_emergency_state("over_current", _input_joint_cmd)
       ELSE /\ servo_pc' = "sanity"
            /\ UNCHANGED <<_gain, _input_joint_cmd, emergency>>
    /\ UNCHANGED <<_output_joint_cmd, _input_eef_cmd, _output_eef_cmd,
                   _interp_start_eef_cmd, filter_vars, flag_vars, caller_vars, bus_vars,
                   _joint_state, _cmd_mutex, now, unread_eef_cmds>>
    /\ UNCHANGED tick_vars
    /\ UNCHANGED other_vars

_check_joint_state_sanity ==
    /\ servo_pc = "sanity"
    /\ IF sanity_violated(_joint_state, _input_joint_cmd)
       THEN enter_emergency_state("sanity", _input_joint_cmd)
       ELSE /\ servo_pc' = "calc"
            /\ UNCHANGED <<_gain, _input_joint_cmd, emergency>>
    /\ UNCHANGED <<_output_joint_cmd, _input_eef_cmd, _output_eef_cmd,
                   _interp_start_eef_cmd, filter_vars, flag_vars, caller_vars, bus_vars,
                   _joint_state, _over_current_cnt, _cmd_mutex, now, over_current_streak,
                   unread_eef_cmds>>
    /\ UNCHANGED tick_vars
    /\ UNCHANGED other_vars

\* an assert() of the interpolation branch fails, in a build that keeps them
_calc_joint_cmd_assert ==
    /\ servo_pc = "calc"
    /\ _cmd_mutex = "free"
    /\ _input_eef_cmd.timestamp # 0
    /\ ~interp_asserts(_input_eef_cmd, _interp_start_eef_cmd, now)
    /\ servo_pc' = "aborted"
    /\ UNCHANGED <<cmd_vars, filter_vars, flag_vars, caller_vars, bus_vars, _joint_state,
                   _over_current_cnt, _cmd_mutex, emergency, now, over_current_streak,
                   unread_eef_cmds>>
    /\ UNCHANGED tick_vars
    /\ UNCHANGED other_vars

\* variant: the joint command is written whatever the solver reports
ik_result_used_always(success) == TRUE

\* if (success)
ik_result_used(success) == success

_calc_joint_cmd(E) ==
    /\ servo_pc = "calc"
    /\ _cmd_mutex = "free"
    /\ LET out_eef == interpolate_eef(_input_eef_cmd, _interp_start_eef_cmd,
                                      _output_eef_cmd, now)
       IN  /\ _output_eef_cmd' = out_eef
           /\ IF pose_near_zero(out_eef.pose_6d)
              THEN \* _enter_emergency_state is called with _cmd_mutex held
                   /\ enter_emergency_state("eef_zero", _input_joint_cmd)
                   /\ _cmd_mutex' = "servo"
                   /\ UNCHANGED <<filter_vars, last_ik>>
              ELSE /\ \E ik \in E.iks :
                     /\ last_ik' =
                           IF ik[1] THEN NoIK
                           ELSE [success |-> FALSE,
                                 before |-> <<_input_joint_cmd, _joint_pos_filter,
                                              _joint_torque_filter>>]
                     /\ IF ik_result_used(ik[1])
                       THEN /\ _joint_pos_filter' =
                                   filter_push(_joint_pos_filter, clamp_joint_pos(ik[2]))
                            /\ IF _enable_gravity_compensation
                               THEN \E id \in E.ids :
                                      /\ _joint_torque_filter' =
                                            filter_push(_joint_torque_filter, id)
                                      /\ _input_joint_cmd' =
                                            [JointStateZero EXCEPT
                                               !.gripper_pos = out_eef.gripper_pos,
                                               !.pos = filter_mean(_joint_pos_filter'),
                                               !.torque = filter_mean(_joint_torque_filter')]
                               ELSE /\ _input_joint_cmd' =
                                            [JointStateZero EXCEPT
                                               !.gripper_pos = out_eef.gripper_pos,
                                               !.pos = filter_mean(_joint_pos_filter')]
                                    /\ UNCHANGED _joint_torque_filter
                       ELSE UNCHANGED <<_input_joint_cmd, filter_vars>>
                   /\ servo_pc' = "update"
                   /\ UNCHANGED <<_gain, emergency, _cmd_mutex>>
    /\ unread_eef_cmds' = <<>>
    /\ UNCHANGED <<_output_joint_cmd, _input_eef_cmd, _interp_start_eef_cmd>>
    /\ UNCHANGED <<flag_vars, caller_vars, bus_vars, _joint_state, _over_current_cnt, now,
                   over_current_streak>>
    /\ UNCHANGED <<transmit_ok, tick_start_cmd>>
    /\ UNCHANGED other_vars

\* the first part of _send_recv: command shaping under _cmd_mutex
_update_output_cmd ==
    /\ servo_pc = "update"
    /\ _cmd_mutex = "free"
    /\ _output_joint_cmd' =
          update_output_cmd(_input_joint_cmd, _output_joint_cmd, _gain, _joint_state)
    /\ servo_pc' = "send_recv"
    /\ UNCHANGED <<_gain, _input_joint_cmd, _input_eef_cmd, _output_eef_cmd,
                   _interp_start_eef_cmd, filter_vars, flag_vars, caller_vars, bus_vars,
                   _joint_state, _over_current_cnt, _cmd_mutex, emergency, now,
                   over_current_streak, unread_eef_cmds>>
    /\ UNCHANGED tick_vars
    /\ UNCHANGED other_vars

\* the motor types _send_recv has a frame format for
supported_motor_types == {"EC_A4310", "DM_J4310", "DM_J4340"}

\* the value _send_recv returns: false at the first joint whose motor type
\* has no frame format, whatever became of the frames sent
send_recv_returns(model) == \A i \in Joints : motor_type(model)[i] \in supported_motor_types

\* the joint state after the frames are sent: the results of send_EC_motor_cmd
\* and send_DM_motor_cmd are not looked at, the telemetry is read regardless
joint_state_after_send(js, new_js, ok) == new_js

\* the rest of _send_recv (seven frames out, one telemetry snapshot in),
\* followed by the sleep that ends the loop iteration, which does not look
\* at what _send_recv returned
_send_recv(E) ==
    /\ servo_pc = "send_recv"
    /\ IF send_recv_returns(robot_model)
       THEN \E ok \in E.sends :
              /\ transmit_ok' = ok
              /\ sent_motor_cmd' =
                    IF ok THEN send_motor_cmds(robot_model, _gain, _output_joint_cmd)
                    ELSE sent_motor_cmd
              /\ \E motor_msg \in E.msgs :
                    _joint_state' =
                       joint_state_after_send(
                          _joint_state, decode_joint_state(robot_model, motor_msg, now), ok)
       ELSE /\ transmit_ok' = FALSE
            /\ UNCHANGED <<sent_motor_cmd, _joint_state>>
    /\ tick_start_cmd' = <<>>
    /\ last_ik' = NoIK
    /\ now' = after_sleep(now, clock_limit(E))
    /\ servo_pc' = "loop"
    /\ UNCHANGED <<cmd_vars, filter_vars, flag_vars, caller_vars, _over_current_cnt,
                   _cmd_mutex, emergency, over_current_streak,
                   unread_eef_cmds>>
    /\ UNCHANGED other_vars

(***************************************************************************)
(* The emergency loop (_enter_emergency_state, while (true))               *)
(***************************************************************************)
\* std::mutex is not recursive: locking it again on the owning thread is
\* undefined; the thread blocks forever, or lock() throws std::system_error,
\* which nothing catches on the background thread
RelockOutcomes == {"deadlocked", "terminated"}

\* top of while (true): lock_guard on _cmd_mutex, set_gain, zero the commands
emergency_loop ==
    /\ servo_pc = "emergency"
    /\ IF _cmd_mutex = "servo"
       THEN /\ \E outcome \in RelockOutcomes : servo_pc' = outcome
            /\ UNCHANGED <<_gain, _input_joint_cmd, _cmd_mutex>>
       ELSE /\ _cmd_mutex' = "servo"
            /\ _gain' = emergency_gain
            /\ _input_joint_cmd' =
                  [_input_joint_cmd EXCEPT !.vel = Vec6Zero, !.torque = Vec6Zero]
            /\ servo_pc' = "emergency_send_recv"
    /\ UNCHANGED <<_output_joint_cmd, _input_eef_cmd, _output_eef_cmd,
                   _interp_start_eef_cmd, filter_vars, flag_vars, caller_vars, bus_vars,
                   _joint_state, _over_current_cnt, emergency, now, over_current_streak,
                   unread_eef_cmds>>
    /\ UNCHANGED tick_vars
    /\ UNCHANGED other_vars

\* _send_recv() inside the loop: its _update_output_cmd() locks _cmd_mutex,
\* which the loop body already holds
emergency_send_recv ==
    /\ servo_pc = "emergency_send_recv"
    /\ _cmd_mutex = "servo"
    /\ \E outcome \in RelockOutcomes : servo_pc' = outcome
    /\ UNCHANGED <<cmd_vars, filter_vars, flag_vars, caller_vars, bus_vars, _joint_state,
                   _over_current_cnt, _cmd_mutex, emergency, now, over_current_streak,
                   unread_eef_cmds>>
    /\ UNCHANGED tick_vars
    /\ UNCHANGED other_vars

(***************************************************************************)
(* The caller thread                                                       *)
(***************************************************************************)
set_gain(new_gain) ==
    /\ process_alive
    /\ caller_pc = "idle"
    /\ IF unsafe_gain_transition(_gain, new_gain, _joint_state, _output_joint_cmd)
       THEN \* throws std::runtime_error
            /\ _background_send_recv_running' = FALSE
            /\ UNCHANGED _gain
       ELSE /\ _gain' = new_gain
            /\ UNCHANGED _background_send_recv_running
    /\ UNCHANGED <<_input_joint_cmd, _output_joint_cmd, _input_eef_cmd,
                   _output_eef_cmd, _interp_start_eef_cmd, filter_vars, robot_model,
                   _destroy_background_threads, _enable_gravity_compensation, bus_vars,
                   caller_vars, _joint_state, _over_current_cnt, _cmd_mutex,
                   servo_pc, emergency, now, over_current_streak,
                   unread_eef_cmds>>
    /\ UNCHANGED tick_vars
    /\ UNCHANGED other_vars

\* history: the commands stored since the last interpolation step, without
\* immediate repetitions, the last two of them at most
stored_eef_cmd(unread, new_cmd) ==
    IF unread # <<>> /\ unread[Len(unread)] = new_cmd THEN unread
    ELSE IF Len(unread) < 2 THEN Append(unread, new_cmd)
    ELSE <<unread[2], new_cmd>>

\* variant: the segment start is not moved
segment_start_kept(out_eef, start_eef) == start_eef

\* _interp_start_eef_cmd = _output_eef_cmd
segment_start(out_eef, start_eef) == out_eef

\* variant: no command is stale
stale_eef_cmd_never(new_cmd, t) == FALSE

\* new_cmd.timestamp != 0 && new_cmd.timestamp < get_timestamp()
stale_eef_cmd(new_cmd, t) == new_cmd.timestamp # 0 /\ new_cmd.timestamp < t

\* variant: the command is stored as given
supported_eef_cmd_as_given(cmd) == cmd

\* gripper velocity and torque control is not supported: both are zeroed
supported_eef_cmd(cmd) == [cmd EXCEPT !.gripper_vel = 0, !.gripper_torque = 0]

set_eef_cmd(cmd) ==
    /\ process_alive
    /\ caller_pc = "idle"
    /\ _cmd_mutex = "free"
    /\ LET new_cmd == supported_eef_cmd(cmd)
       IN  IF stale_eef_cmd(new_cmd, get_timestamp)
           THEN UNCHANGED <<_input_eef_cmd, _interp_start_eef_cmd, unread_eef_cmds>>
           ELSE /\ _input_eef_cmd' = new_cmd
                /\ _interp_start_eef_cmd' =
                      segment_start(_output_eef_cmd, _interp_start_eef_cmd)
                /\ unread_eef_cmds' = stored_eef_cmd(unread_eef_cmds, new_cmd)
    /\ UNCHANGED <<_gain, _input_joint_cmd, _output_joint_cmd,
                   _output_eef_cmd, filter_vars, flag_vars, caller_vars, bus_vars,
                   _joint_state, _over_current_cnt, _cmd_mutex, servo_pc, emergency, now,
                   over_current_streak>>
    /\ UNCHANGED tick_vars
    /\ UNCHANGED other_vars

\* the caller enters get_gain() and waits for _cmd_mutex
get_gain_call ==
    /\ process_alive
    /\ caller_pc = "idle"
    /\ caller_pc' = "get_gain"
    /\ UNCHANGED <<sleep_until, cmd_vars, filter_vars, flag_vars, bus_vars, _joint_state,
                   _over_current_cnt, _cmd_mutex, servo_pc, emergency, now,
                   over_current_streak, unread_eef_cmds>>
    /\ UNCHANGED tick_vars
    /\ UNCHANGED other_vars

\* the lock is granted and get_gain() returns _gain
get_gain ==
    /\ process_alive
    /\ caller_pc = "get_gain"
    /\ _cmd_mutex = "free"
    /\ caller_pc' = "idle"
    /\ UNCHANGED <<sleep_until, cmd_vars, filter_vars, flag_vars, bus_vars, _joint_state,
                   _over_current_cnt, _cmd_mutex, servo_pc, emergency, now,
                   over_current_streak, unread_eef_cmds>>
    /\ UNCHANGED tick_vars
    /\ UNCHANGED other_vars

(***************************************************************************)
(* The destructor (~Arx5CartesianController), on the caller thread         *)
(***************************************************************************)
\* Gain() with kd = default_kd, kd[0], kd[1], kd[2] * 3 and kd[3] * 1.5
destructor_gain ==
    [GainZero EXCEPT
        !.kd = [i \in Joints |->
                  IF i \in {1, 2, 3} THEN default_kd[i] * 3
                  ELSE IF i = 4 THEN (default_kd[i] * 3) \div 2
                  ELSE default_kd[i]]]

\* variant: no sleep
sleep_ms_skipped(t, ms) == t

\* the clock reading at which a sleep_ms(ms) that starts at t is over
sleep_ms(t, ms) == t + ms

\* set_gain(damping_gain); its kp is zero, so set_gain does not refuse it.
\* The destructor only runs when the clock can reach the end of its sleep.
destructor_set_gain(E) ==
    /\ process_alive
    /\ caller_pc = "idle"
    /\ now + destructor_sleep_ms <= E.horizon
    /\ now <= start_limit(E)
    /\ _gain' = destructor_gain
    /\ caller_pc' = "destructor_zero"
    /\ UNCHANGED <<_input_joint_cmd, _output_joint_cmd, _input_eef_cmd, _output_eef_cmd,
                   _interp_start_eef_cmd, filter_vars, flag_vars, bus_vars, sleep_until,
                   _joint_state, _over_current_cnt, _cmd_mutex, servo_pc, emergency, now,
                   over_current_streak, unread_eef_cmds>>
    /\ UNCHANGED tick_vars
    /\ UNCHANGED other_vars

\* the velocity and torque commands are zeroed, gravity compensation is
\* switched off and sleep_ms(2000) begins
destructor_zero_cmd(E) ==
    /\ process_alive
    /\ caller_pc = "destructor_zero"
    /\ now + destructor_sleep_ms <= E.horizon
    /\ _input_joint_cmd' = [_input_joint_cmd EXCEPT !.vel = Vec6Zero, !.torque = Vec6Zero]
    /\ _enable_gravity_compensation' = FALSE
    /\ sleep_until' = sleep_ms(now, destructor_sleep_ms)
    /\ caller_pc' = "destructor_sleep"
    /\ UNCHANGED <<_gain, _output_joint_cmd, _input_eef_cmd, _output_eef_cmd,
                   _interp_start_eef_cmd, filter_vars, robot_model,
                   _background_send_recv_running, _destroy_background_threads, bus_vars,
                   _joint_state, _over_current_cnt, _cmd_mutex, servo_pc, emergency, now,
                   over_current_streak, unread_eef_cmds>>
    /\ UNCHANGED tick_vars
    /\ UNCHANGED other_vars

\* the sleep is over: _destroy_background_threads = true.  The clock of the
\* model is advanced by the background thread, so the sleep does not end once
\* that thread is blocked in the emergency state.
destructor_set_destroy ==
    /\ process_alive
    /\ caller_pc = "destructor_sleep"
    /\ now >= sleep_until
    /\ _destroy_background_threads' = TRUE
    /\ caller_pc' = "destructor_join"
    /\ UNCHANGED <<cmd_vars, filter_vars, robot_model, _background_send_recv_running,
                   _enable_gravity_compensation, bus_vars, sleep_until, _joint_state,
                   _over_current_cnt, _cmd_mutex, servo_pc, emergency, now,
                   over_current_streak, unread_eef_cmds>>
    /\ UNCHANGED tick_vars
    /\ UNCHANGED other_vars

\* _background_send_recv_thread.join() returns
destructor_join ==
    /\ caller_pc = "destructor_join"
    /\ servo_pc = "exited"
    /\ caller_pc' = "destroyed"
    /\ UNCHANGED <<cmd_vars, filter_vars, flag_vars, bus_vars, sleep_until, _joint_state,
                   _over_current_cnt, _cmd_mutex, servo_pc, emergency, now,
                   over_current_streak, unread_eef_cmds>>
    /\ UNCHANGED tick_vars
    /\ UNCHANGED other_vars

(***************************************************************************)
(* reset_to_home                                                           *)
(***************************************************************************)
MaxAbs(v) ==
    CHOOSE m \in {Abs(v[i]) : i \in Joints} : \A i \in Joints : Abs(v[i]) <= m

\* max_pos_error, in mrad
max_pos_error(init_state) ==
    LET arm == MaxAbs(init_state.pos)
        gripper == quot(init_state.gripper_pos * 2 * 1000, gripper_width)
    IN  IF gripper > arm THEN gripper ELSE arm

\* step_num * controller_dt = std::max(max_pos_error * 2, 0.5), in ms
reset_duration_ms(init_state) ==
    IF max_pos_error(init_state) * 2 > reset_min_ms
    THEN max_pos_error(init_state) * 2 ELSE reset_min_ms

\* target_gain: the default gain when the kp at call time is zero, else the
\* gain at call time
reset_target_gain(init_gain) == IF IsZero(init_gain.kp) THEN default_gain ELSE init_gain

\* JointState target_state: every field zero
reset_target_state == JointStateZero

\* a * (1 - alpha) + b * alpha with alpha = i / step_num
at_alpha(a, b, i, duration) == lerp(a, b, 0, duration, i * controller_dt)

\* gain = init_gain * (1 - alpha) + target_gain * alpha
reset_gain(l) ==
    [kp |-> [j \in Joints |->
                at_alpha(l.init_gain.kp[j], l.target_gain.kp[j], l.i, l.duration)],
     kd |-> [j \in Joints |->
                at_alpha(l.init_gain.kd[j], l.target_gain.kd[j], l.i, l.duration)],
     gripper_kp |->
        at_alpha(l.init_gain.gripper_kp, l.target_gain.gripper_kp, l.i, l.duration),
     gripper_kd |->
        at_alpha(l.init_gain.gripper_kd, l.target_gain.gripper_kd, l.i, l.duration)]

\* joint_cmd = init_state * (1 - alpha) + target_state * alpha
reset_joint_cmd(l) ==
    [pos |-> [j \in Joints |->
                at_alpha(l.init_state.pos[j], reset_target_state.pos[j], l.i, l.duration)],
     gripper_pos |->
        at_alpha(l.init_state.gripper_pos, reset_target_state.gripper_pos, l.i, l.duration)]

\* up to the loop: get_joint_state(), get_gain() under _cmd_mutex, the target
\* gain, step_num, and _background_send_recv_running = true. The call only
\* starts when the clock can reach its end.
reset_to_home_begin(E) ==
    /\ process_alive
    /\ caller_pc = "idle"
    /\ _cmd_mutex = "free"
    /\ now + reset_duration_ms(_joint_state) + reset_step_ms + reset_hold_ms <= E.horizon
    /\ now <= start_limit(E)
    /\ locals' = [i |-> 0, init_state |-> _joint_state, init_gain |-> _gain,
                  target_gain |-> reset_target_gain(_gain),
                  duration |-> reset_duration_ms(_joint_state),
                  prev_running |-> _background_send_recv_running,
                  gain |-> GainZero,
                  joint_cmd |-> [pos |-> Vec6Zero, gripper_pos |-> 0]]
    /\ _background_send_recv_running' = TRUE
    /\ caller_pc' = "reset_set_gain"
    /\ UNCHANGED <<cmd_vars, filter_vars, robot_model, _destroy_background_threads,
                   _enable_gravity_compensation, bus_vars, tick_vars, init_vars,
                   sleep_until, _joint_state, _over_current_cnt, _cmd_mutex, servo_pc,
                   emergency, now, over_current_streak, unread_eef_cmds>>
    /\ UNCHANGED high_vars
    /\ UNCHANGED recv_vars

\* the loop condition, then gain, joint_cmd and set_gain(gain), which may
\* throw out of reset_to_home; after the loop, sleep_ms(500)
reset_to_home_set_gain ==
    /\ caller_pc = "reset_set_gain"
    /\ now >= sleep_until
    /\ IF locals.i * controller_dt <= locals.duration
       THEN /\ locals' = [locals EXCEPT !.gain = reset_gain(locals),
                                         !.joint_cmd = reset_joint_cmd(locals)]
            /\ IF unsafe_gain_transition(_gain, reset_gain(locals), _joint_state,
                                         _output_joint_cmd)
               THEN /\ _background_send_recv_running' = FALSE
                    /\ caller_pc' = "idle"
                    /\ UNCHANGED _gain
               ELSE /\ _gain' = reset_gain(locals)
                    /\ caller_pc' = "reset_set_eef_cmd"
                    /\ UNCHANGED _background_send_recv_running
            /\ UNCHANGED sleep_until
       ELSE /\ sleep_until' = sleep_ms(now, reset_hold_ms)
            /\ caller_pc' = "reset_hold"
            /\ UNCHANGED <<locals, _gain, _background_send_recv_running>>
    /\ UNCHANGED <<_input_joint_cmd, _output_joint_cmd, _input_eef_cmd, _output_eef_cmd,
                   _interp_start_eef_cmd, filter_vars, robot_model,
                   _destroy_background_threads, _enable_gravity_compensation, bus_vars,
                   tick_vars, init_vars, _joint_state, _over_current_cnt, _cmd_mutex,
                   servo_pc, emergency, now, over_current_streak, unread_eef_cmds>>
    /\ UNCHANGED high_vars
    /\ UNCHANGED recv_vars

\* forward_kinematics(joint_cmd.pos), set_eef_cmd(eef_cmd) with timestamp 0,
\* sleep_ms(5), ++i
reset_to_home_set_eef_cmd(E) ==
    /\ caller_pc = "reset_set_eef_cmd"
    /\ _cmd_mutex = "free"
    /\ \E fk \in E.fks :
          LET new_cmd == supported_eef_cmd(EEFState(0, fk, locals.joint_cmd.gripper_pos, 0))
          IN  IF stale_eef_cmd(new_cmd, get_timestamp)
              THEN UNCHANGED <<_input_eef_cmd, _interp_start_eef_cmd, unread_eef_cmds>>
              ELSE /\ _input_eef_cmd' = new_cmd
                   /\ _interp_start_eef_cmd' =
                         segment_start(_output_eef_cmd, _interp_start_eef_cmd)
                   /\ unread_eef_cmds' = stored_eef_cmd(unread_eef_cmds, new_cmd)
    /\ sleep_until' = sleep_ms(now, reset_step_ms)
    /\ locals' = [locals EXCEPT !.i = @ + 1]
    /\ caller_pc' = "reset_set_gain"
    /\ UNCHANGED <<_gain, _input_joint_cmd, _output_joint_cmd, _output_eef_cmd,
                   filter_vars, flag_vars, bus_vars, tick_vars, init_vars, _joint_state,
                   _over_current_cnt, _cmd_mutex, servo_pc, emergency, now,
                   over_current_streak>>
    /\ UNCHANGED high_vars
    /\ UNCHANGED recv_vars

\* variant: the flag is left true
prev_running_dropped(l) == TRUE

\* the value reset_to_home writes to the flag when it returns
prev_running_restored(l) == l.prev_running

\* after sleep_ms(500): _background_send_recv_running = prev_running
reset_to_home_end ==
    /\ caller_pc = "reset_hold"
    /\ now >= sleep_until
    /\ _background_send_recv_running' = prev_running_restored(locals)
    /\ locals' = <<>>
    /\ caller_pc' = "idle"
    /\ UNCHANGED <<cmd_vars, filter_vars, robot_model, _destroy_background_threads,
                   _enable_gravity_compensation, bus_vars, tick_vars, init_vars,
                   sleep_until, _joint_state, _over_current_cnt, _cmd_mutex, servo_pc,
                   emergency, now, over_current_streak, unread_eef_cmds>>
    /\ UNCHANGED high_vars
    /\ UNCHANGED recv_vars

(***************************************************************************)
(* set_to_damping                                                          *)
(***************************************************************************)
\* variant: the target gain is the default gain
damping_target_gain_default == default_gain

\* Gain target_gain; target_gain.kd = default_kd
damping_target_gain == [GainZero EXCEPT !.kd = default_kd]

\* get_joint_state(), get_gain() under _cmd_mutex, and set_gain(target_gain),
\* which throws when it refuses the gain. The call only starts when the clock
\* can reach its end. running_at_call is a history of the flag.
set_to_damping_set_gain(E) ==
    /\ process_alive
    /\ caller_pc = "idle"
    /\ _cmd_mutex = "free"
    /\ now + damping_sleep_ms <= E.horizon
    /\ now <= start_limit(E)
    /\ IF unsafe_gain_transition(_gain, damping_target_gain, _joint_state,
                                 _output_joint_cmd)
       THEN /\ _background_send_recv_running' = FALSE
            /\ UNCHANGED <<_gain, locals, caller_pc>>
       ELSE /\ _gain' = damping_target_gain
            /\ locals' = [joint_state |-> _joint_state,
                          running_at_call |-> _background_send_recv_running]
            /\ caller_pc' = "damping_set_eef_cmd"
            /\ UNCHANGED _background_send_recv_running
    /\ UNCHANGED <<_input_joint_cmd, _output_joint_cmd, _input_eef_cmd, _output_eef_cmd,
                   _interp_start_eef_cmd, filter_vars, robot_model,
                   _destroy_background_threads, _enable_gravity_compensation, bus_vars,
                   tick_vars, init_vars, sleep_until, _joint_state, _over_current_cnt,
                   _cmd_mutex, servo_pc, emergency, now, over_current_streak,
                   unread_eef_cmds>>
    /\ UNCHANGED high_vars
    /\ UNCHANGED recv_vars

\* set_eef_cmd(eef_cmd) with the pose of forward_kinematics(joint_state.pos),
\* the gripper position read and timestamp 0, then sleep_ms(500)
set_to_damping_set_eef_cmd(E) ==
    /\ caller_pc = "damping_set_eef_cmd"
    /\ _cmd_mutex = "free"
    /\ \E fk \in E.fks :
          LET new_cmd == supported_eef_cmd(EEFState(0, fk, locals.joint_state.gripper_pos, 0))
          IN  IF stale_eef_cmd(new_cmd, get_timestamp)
              THEN UNCHANGED <<_input_eef_cmd, _interp_start_eef_cmd, unread_eef_cmds>>
              ELSE /\ _input_eef_cmd' = new_cmd
                   /\ _interp_start_eef_cmd' =
                         segment_start(_output_eef_cmd, _interp_start_eef_cmd)
                   /\ unread_eef_cmds' = stored_eef_cmd(unread_eef_cmds, new_cmd)
    /\ sleep_until' = sleep_ms(now, damping_sleep_ms)
    /\ caller_pc' = "damping_sleep"
    /\ UNCHANGED <<_gain, _input_joint_cmd, _output_joint_cmd, _output_eef_cmd,
                   filter_vars, flag_vars, bus_vars, tick_vars, init_vars, locals,
                   _joint_state, _over_current_cnt, _cmd_mutex, servo_pc, emergency, now,
                   over_current_streak>>
    /\ UNCHANGED high_vars
    /\ UNCHANGED recv_vars

\* set_to_damping returns when its sleep is over; returned is a history of
\* the call
set_to_damping_return ==
    /\ caller_pc = "damping_sleep"
    /\ now >= sleep_until
    /\ locals' = [returned |-> "set_to_damping"]
    /\ caller_pc' = "idle"
    /\ UNCHANGED <<cmd_vars, filter_vars, flag_vars, bus_vars, tick_vars, init_vars,
                   sleep_until, _joint_state, _over_current_cnt, _cmd_mutex, servo_pc,
                   emergency, now, over_current_streak, unread_eef_cmds>>
    /\ UNCHANGED high_vars
    /\ UNCHANGED recv_vars

(***************************************************************************)
(* Construction (the constructor and _init_robot)                          *)
(***************************************************************************)
\* EEFState()
EEFStateZero == EEFState(0, Vec6Zero, 0, 0)

\* the members before _init_robot runs
InitConstruct(E) ==
    /\ robot_model \in E.models
    /\ _enable_gravity_compensation \in E.gravity
    /\ now = 0
    /\ _gain = GainZero
    /\ _joint_state = JointStateZero
    /\ _input_joint_cmd = JointStateZero
    /\ _output_joint_cmd = JointStateZero
    /\ sent_motor_cmd = <<>>
    /\ _input_eef_cmd = EEFStateZero
    /\ _output_eef_cmd = EEFStateZero
    /\ _interp_start_eef_cmd = EEFStateZero
    /\ _joint_pos_filter = <<>>
    /\ _joint_torque_filter = <<>>
    /\ _over_current_cnt = 0
    /\ _background_send_recv_running = FALSE
    /\ _destroy_background_threads = FALSE
    /\ _cmd_mutex = "free"
    /\ servo_pc = "not_started"
    /\ emergency = "none"
    /\ caller_pc = "init_enable"
    /\ sleep_until = 0
    /\ over_current_streak = 0
    /\ unread_eef_cmds = <<>>
    /\ transmit_ok = TRUE
    /\ tick_start_cmd = <<>>
    /\ last_ik = NoIK
    /\ enable_DM_motor_ok = TRUE
    /\ init_i = 0
    /\ locals = <<>>
    /\ InitHighLevel
    /\ _state_mutex = "free"
    /\ recv_motor_msg = <<>>

\* the enable loop, whose enable_DM_motor results are not looked at, then
\* _input_joint_cmd = JointState() and set_gain(gain) with kp = 0
_init_robot_enable(E) ==
    /\ caller_pc = "init_enable"
    /\ \E ok \in E.enables : enable_DM_motor_ok' = ok
    /\ _input_joint_cmd' = JointStateZero
    /\ _gain' = IF unsafe_gain_transition(_gain, damping_gain, _joint_state, _output_joint_cmd)
                THEN _gain ELSE damping_gain
    /\ init_i' = 0
    /\ caller_pc' = "init_send_recv"
    /\ UNCHANGED <<_output_joint_cmd, _input_eef_cmd, _output_eef_cmd, _interp_start_eef_cmd,
                   filter_vars, flag_vars, bus_vars, tick_vars, sleep_until, _joint_state,
                   _over_current_cnt, _cmd_mutex, servo_pc, emergency, now,
                   over_current_streak, unread_eef_cmds>>
    /\ UNCHANGED locals
    /\ UNCHANGED high_vars
    /\ UNCHANGED recv_vars

\* one pass of the warm-up loop: _send_recv() and sleep_ms(5)
_init_robot_send_recv(E) ==
    /\ caller_pc = "init_send_recv"
    /\ init_i <= warm_up_last
    /\ _output_joint_cmd' =
          update_output_cmd(_input_joint_cmd, _output_joint_cmd, _gain, _joint_state)
    /\ \E ok \in E.sends :
          /\ transmit_ok' = ok
          /\ sent_motor_cmd' =
                IF ok THEN send_motor_cmds(robot_model, _gain, _output_joint_cmd')
                ELSE sent_motor_cmd
          /\ \E motor_msg \in E.msgs :
                _joint_state' =
                   joint_state_after_send(
                      _joint_state,
                      decode_joint_state(robot_model, motor_msg, now + send_recv_ms), ok)
    /\ now' = now + send_recv_ms + warm_up_sleep_ms
    /\ init_i' = init_i + 1
    /\ UNCHANGED <<_gain, _input_joint_cmd, _input_eef_cmd, _output_eef_cmd,
                   _interp_start_eef_cmd, filter_vars, flag_vars, caller_vars,
                   tick_start_cmd, last_ik, enable_DM_motor_ok, _over_current_cnt,
                   _cmd_mutex,
                   servo_pc, emergency, over_current_streak, unread_eef_cmds>>
    /\ UNCHANGED locals
    /\ UNCHANGED high_vars
    /\ UNCHANGED recv_vars

\* after the loop: throw if no position was read, else take the EEF commands
\* from get_eef_state() and set _background_send_recv_running
_init_robot_check ==
    /\ caller_pc = "init_send_recv"
    /\ init_i > warm_up_last
    /\ IF IsZero(_joint_state.pos)
       THEN \* throws std::runtime_error out of the constructor
            /\ caller_pc' = "init_failed"
            /\ UNCHANGED <<_input_eef_cmd, _output_eef_cmd, _interp_start_eef_cmd,
                           _background_send_recv_running>>
       ELSE /\ \E fk \in FKResults :
                 /\ _input_eef_cmd' = get_eef_state(_joint_state, fk)
                 /\ _output_eef_cmd' = get_eef_state(_joint_state, fk)
                 /\ _interp_start_eef_cmd' = get_eef_state(_joint_state, fk)
            /\ _background_send_recv_running' = TRUE
            /\ caller_pc' = "init_done"
    /\ UNCHANGED <<_gain, _input_joint_cmd, _output_joint_cmd, filter_vars, robot_model,
                   _destroy_background_threads, _enable_gravity_compensation, bus_vars,
                   tick_vars, init_vars, sleep_until, _joint_state, _over_current_cnt,
                   _cmd_mutex, servo_pc, emergency, now, over_current_streak,
                   unread_eef_cmds>>
    /\ UNCHANGED locals
    /\ UNCHANGED high_vars
    /\ UNCHANGED recv_vars

\* the constructor after _init_robot(): the background thread is created
constructor_start_thread ==
    /\ caller_pc = "init_done"
    /\ servo_pc' = "loop"
    /\ caller_pc' = "idle"
    /\ UNCHANGED <<cmd_vars, filter_vars, flag_vars, bus_vars, tick_vars, init_vars,
                   sleep_until, _joint_state, _over_current_cnt, _cmd_mutex, emergency,
                   now, over_current_streak, unread_eef_cmds>>
    /\ UNCHANGED locals
    /\ UNCHANGED high_vars
    /\ UNCHANGED recv_vars

(***************************************************************************)
(* Arx5HighLevel                                                           *)
(***************************************************************************)
\* double _LOOK_AHEAD_TIME = 0.1, in ms
_LOOK_AHEAD_TIME == 100
\* the period of the thread of Arx5HighLevel, in ms; the header that defines
\* HIGH_LEVEL_DT is not among the sources, and the period of the Cartesian
\* thread is taken
HIGH_LEVEL_DT == 5
\* bool _enable_ee_vel_clipping = true, which nothing assigns
_enable_ee_vel_clipping == TRUE

\* a caller of Arx5HighLevel, who passes the home pose and a pose 9 mm from
\* it, with and without a timestamp and with and without gripper velocity
\* and torque, over a joint controller whose gain is the damping or the
\* default one; the clock of the joint controller stops one period after the
\* first look-ahead interval
HighEnv ==
    [high_cmds |-> {HighState(0, <<259, 0, 160, 0, 0, 0>>, 20000, 50, 0),
                    HighState(500, PoseHome, 0, 0, 30)}] @@
    [Environment(
        {"X5"}, {FALSE},
        {NominalMsg},
        {damping_gain, default_gain},
        {},
        {<<TRUE, <<20, -500, 0, 0, 0, 0>>>>, <<FALSE, Vec6Zero>>},
        {Vec6Zero})
     EXCEPT !.horizon = _LOOK_AHEAD_TIME + HIGH_LEVEL_DT]

\* Arx5HighLevel::get_timestamp
high_get_timestamp == high_joint_state.timestamp

\* the timestamp set_high_cmd would store if it honoured the caller's
high_cmd_timestamp_kept(new_timestamp, t) ==
    IF new_timestamp = 0 THEN t + _LOOK_AHEAD_TIME ELSE new_timestamp

\* the timestamp set_high_cmd stores: both branches assign t + _LOOK_AHEAD_TIME
high_cmd_timestamp(new_timestamp, t) ==
    IF new_timestamp = 0 THEN t + _LOOK_AHEAD_TIME ELSE t + _LOOK_AHEAD_TIME

\* new_cmd as set_high_cmd stores it
stored_high_cmd(new_cmd, t) ==
    LET no_gripper == IF new_cmd.gripper_vel # 0 \/ new_cmd.gripper_torque # 0
                      THEN [new_cmd EXCEPT !.gripper_vel = 0, !.gripper_torque = 0]
                      ELSE new_cmd
    IN  [no_gripper EXCEPT !.timestamp = high_cmd_timestamp(new_cmd.timestamp, t)]

\* Arx5HighLevel::set_high_cmd, the whole call under _cmd_mutex
set_high_cmd(E) ==
    /\ high_pc \in {"task", "send_recv"}
    /\ \E new_cmd \in E.high_cmds :
          /\ _input_high_cmd' = stored_high_cmd(new_cmd, high_get_timestamp)
          /\ submitted_high_cmd' = [cmd |-> new_cmd, t |-> high_get_timestamp]
    /\ UNCHANGED <<_output_high_cmd, _high_state, high_joint_state,
                   _background_gravity_compensation_running, low_cmd, high_pc>>
    /\ UNCHANGED <<cmd_vars, filter_vars, flag_vars, caller_vars, bus_vars, tick_vars,
                   init_vars, locals, _joint_state, _over_current_cnt, _cmd_mutex,
                   servo_pc, emergency, now, over_current_streak, unread_eef_cmds>>
    /\ UNCHANGED recv_vars

\* the first part of Arx5HighLevel::_update_output_cmd: the interpolation is
\* commented out and both branches assign the input command
look_ahead_output(input, prev_output, t) ==
    IF t + HIGH_LEVEL_DT >= input.timestamp THEN input ELSE input

\* the second part of Arx5HighLevel::_update_output_cmd: each axis with kp > 0
\* stays within EE_VEL_MAX * dt of the previous output, each other axis takes
\* the measured pose
high_clip_ee_vel(output, prev_output, gain, high_state) ==
    [output EXCEPT !.pose_6d =
        [i \in Joints |->
            IF gain.kp[i] > 0
            THEN LET max_ee_pose ==
                         prev_output.pose_6d[i] + quot(ee_vel_max[i] * HIGH_LEVEL_DT, 10)
                     min_ee_pose ==
                         prev_output.pose_6d[i] - quot(ee_vel_max[i] * HIGH_LEVEL_DT, 10)
                 IN  IF output.pose_6d[i] > max_ee_pose THEN max_ee_pose
                     ELSE IF output.pose_6d[i] < min_ee_pose THEN min_ee_pose
                     ELSE output.pose_6d[i]
            ELSE high_state.pose_6d[i]]]

\* Arx5HighLevel::_update_output_cmd
high_update_output_cmd(input, prev_output, t, gain, high_state) ==
    IF _enable_ee_vel_clipping
    THEN high_clip_ee_vel(look_ahead_output(input, prev_output, t), prev_output, gain,
                          high_state)
    ELSE look_ahead_output(input, prev_output, t)

\* one pass of _background_gravity_compensation_task up to set_joint_cmd:
\* _update_output_cmd and inverse kinematics under _cmd_mutex, then the
\* filters, which with _moving_window_size = 1 return what they are given
_background_gravity_compensation_task(E) ==
    /\ high_pc = "task"
    /\ _background_gravity_compensation_running
    /\ \E gain \in E.gains :
          _output_high_cmd' =
              high_update_output_cmd(_input_high_cmd, _output_high_cmd, high_get_timestamp,
                                     gain, _high_state)
    /\ \E ik \in E.iks :
          IF ik[1]
          THEN \E id \in E.ids :
                  low_cmd' = [JointStateZero EXCEPT
                                !.gripper_pos = _output_high_cmd'.gripper_pos,
                                !.pos = ik[2],
                                !.torque = id]
          ELSE UNCHANGED low_cmd
    /\ high_pc' = "send_recv"
    /\ UNCHANGED <<_input_high_cmd, _high_state, high_joint_state,
                   _background_gravity_compensation_running, submitted_high_cmd>>
    /\ UNCHANGED <<cmd_vars, filter_vars, flag_vars, caller_vars, bus_vars, tick_vars,
                   init_vars, locals, _joint_state, _over_current_cnt, _cmd_mutex,
                   servo_pc, emergency, now, over_current_streak, unread_eef_cmds>>
    /\ UNCHANGED recv_vars

\* the clock of the joint controller one period of Arx5HighLevel later
high_after_sleep(t, horizon) == IF t + HIGH_LEVEL_DT <= horizon THEN t + HIGH_LEVEL_DT ELSE t

\* the rest of the pass: send_recv_once, then _joint_state and _high_state
\* are refreshed from the joint controller, then the thread sleeps
high_send_recv_once(E) ==
    /\ high_pc = "send_recv"
    /\ \E motor_msg \in E.msgs :
          high_joint_state' =
              decode_joint_state(robot_model, motor_msg,
                                 high_after_sleep(high_get_timestamp, E.horizon))
    /\ \E fk \in E.fks :
          _high_state' = HighState(high_joint_state'.timestamp, fk,
                                   high_joint_state'.gripper_pos,
                                   high_joint_state'.gripper_vel,
                                   high_joint_state'.gripper_torque)
    /\ high_pc' = "task"
    /\ UNCHANGED <<_input_high_cmd, _output_high_cmd,
                   _background_gravity_compensation_running, low_cmd, submitted_high_cmd>>
    /\ UNCHANGED <<cmd_vars, filter_vars, flag_vars, caller_vars, bus_vars, tick_vars,
                   init_vars, locals, _joint_state, _over_current_cnt, _cmd_mutex,
                   servo_pc, emergency, now, over_current_streak, unread_eef_cmds>>
    /\ UNCHANGED recv_vars

(***************************************************************************)
(* _send_recv step by step: transmit, then receive under _state_mutex      *)
(***************************************************************************)
\* a caller who asks for the default gain and reads the joint state, while
\* the second joint is reported at -0.24 rad or beyond its limit
TelemetryEnv ==
    Environment(
        {"X5"}, {FALSE},
        {NominalMsg, WithAngle(1, -240), WithCurrent(1, 1000), WithAngle(1, 6281)},
        {default_gain},
        {},
        {<<TRUE, <<20, -500, 0, 0, 0, 0>>>>},
        {Vec6Zero})

\* _send_recv up to get_motor_msg(): seven frames out, one snapshot in, no
\* mutex held
_send_recv_transmit(E) ==
    /\ servo_pc = "send_recv"
    /\ IF send_recv_returns(robot_model)
       THEN /\ \E ok \in E.sends :
                 /\ transmit_ok' = ok
                 /\ sent_motor_cmd' =
                       IF ok THEN send_motor_cmds(robot_model, _gain, _output_joint_cmd)
                       ELSE sent_motor_cmd
            /\ \E msg \in E.msgs : recv_motor_msg' = msg
            /\ servo_pc' = "receive"
            /\ UNCHANGED <<tick_start_cmd, now, last_ik>>
       ELSE /\ transmit_ok' = FALSE
            /\ tick_start_cmd' = <<>>
            /\ last_ik' = NoIK
            /\ now' = after_sleep(now, clock_limit(E))
            /\ servo_pc' = "loop"
            /\ UNCHANGED <<sent_motor_cmd, recv_motor_msg>>
    /\ UNCHANGED <<cmd_vars, filter_vars, flag_vars, caller_vars, _joint_state,
                   _over_current_cnt, _cmd_mutex, emergency, over_current_streak,
                   unread_eef_cmds, _state_mutex>>
    /\ UNCHANGED <<init_vars, locals, high_vars>>

\* lock_guard on _state_mutex, then the positions and velocities of the
\* joints and of the gripper are written
_send_recv_receive_pos ==
    /\ servo_pc = "receive"
    /\ _state_mutex = "free"
    /\ _state_mutex' = "servo"
    /\ LET new_state == decode_joint_state(robot_model, recv_motor_msg, now)
       IN  _joint_state' = [_joint_state EXCEPT !.pos = new_state.pos,
                                                !.gripper_pos = new_state.gripper_pos,
                                                !.vel = new_state.vel,
                                                !.gripper_vel = new_state.gripper_vel]
    /\ servo_pc' = "receive_torque"
    /\ UNCHANGED <<cmd_vars, filter_vars, flag_vars, caller_vars, bus_vars, tick_vars,
                   _over_current_cnt, _cmd_mutex, emergency, now, over_current_streak,
                   unread_eef_cmds, recv_motor_msg>>
    /\ UNCHANGED <<init_vars, locals, high_vars>>

\* the torques and the timestamp are written, _send_recv returns and
\* releases _state_mutex, and the loop iteration ends with its sleep
_send_recv_receive_torque(E) ==
    /\ servo_pc = "receive_torque"
    /\ _joint_state' = decode_joint_state(robot_model, recv_motor_msg, now)
    /\ _state_mutex' = "free"
    /\ recv_motor_msg' = <<>>
    /\ tick_start_cmd' = <<>>
    /\ last_ik' = NoIK
    /\ now' = after_sleep(now, clock_limit(E))
    /\ servo_pc' = "loop"
    /\ UNCHANGED <<cmd_vars, filter_vars, flag_vars, caller_vars, bus_vars, transmit_ok,
                   _over_current_cnt, _cmd_mutex, emergency, over_current_streak,
                   unread_eef_cmds>>
    /\ UNCHANGED <<init_vars, locals, high_vars>>

\* get_joint_state(): a copy of _joint_state taken under _state_mutex
get_joint_state ==
    /\ process_alive
    /\ caller_pc = "idle"
    /\ _state_mutex = "free"
    /\ locals' = [returned |-> "get_joint_state", joint_state |-> _joint_state]
    /\ UNCHANGED <<cmd_vars, filter_vars, flag_vars, caller_vars, bus_vars, tick_vars,
                   _joint_state, _over_current_cnt, _cmd_mutex, servo_pc, emergency, now,
                   over_current_streak, unread_eef_cmds>>
    /\ UNCHANGED <<init_vars, high_vars, recv_vars>>

\* the background thread, with _send_recv taken step by step
ServoStepwise(E) ==
    \/ _background_send_recv(E)
    \/ _over_current_protection
    \/ _check_joint_state_sanity
    \/ _calc_joint_cmd_assert
    \/ _calc_joint_cmd(E)
    \/ _update_output_cmd
    \/ _send_recv_transmit(E)
    \/ _send_recv_receive_pos
    \/ _send_recv_receive_torque(E)
    \/ emergency_loop
    \/ emergency_send_recv

(***************************************************************************)
(* Specifications                                                          *)
(***************************************************************************)
Servo(E) ==
    \/ _background_send_recv(E)
    \/ _over_current_protection
    \/ _check_joint_state_sanity
    \/ _calc_joint_cmd_assert
    \/ _calc_joint_cmd(E)
    \/ _update_output_cmd
    \/ _send_recv(E)
    \/ emergency_loop
    \/ emergency_send_recv

\* the background thread and a caller that commands the arm
Next(E) ==
    \/ Servo(E)
    \/ \E new_gain \in E.gains : set_gain(new_gain)
    \/ \E cmd \in E.cmds : set_eef_cmd(cmd)

\* the same, with a caller that also reads the gain back
NextWithGetGain(E) ==
    \/ Next(E)
    \/ get_gain_call
    \/ get_gain

\* the protections: over-current, sanity, zero pose, and the emergency loop
SpecProtection == Init(ProtectionEnv) /\ [][NextWithGetGain(ProtectionEnv)]_vars

\* the background thread is always scheduled again; a caller waiting for
\* _cmd_mutex gets it if it stays free
FairProtection ==
    SpecProtection /\ WF_vars(Servo(ProtectionEnv)) /\ WF_vars(get_gain)

\* joint command shaping under gain changes
SpecShaping == Init(ShapingEnv) /\ [][Next(ShapingEnv)]_vars

\* interpolation between timed EEF commands
SpecInterp == Init(InterpEnv) /\ [][Next(InterpEnv)]_vars

\* the background thread is scheduled as long as it can take a step
FairInterp == SpecInterp /\ WF_vars(Servo(InterpEnv))

\* the background thread and a caller that destroys the controller
NextWithDestroy(E) ==
    \/ Servo(E)
    \/ destructor_set_gain(E)
    \/ destructor_zero_cmd(E)
    \/ destructor_set_destroy
    \/ destructor_join

SpecDestroy == Init(DestroyEnv) /\ [][NextWithDestroy(DestroyEnv)]_vars

\* the background thread is scheduled as long as it can take a step, and
\* join() returns once the thread has ended
FairDestroy ==
    SpecDestroy /\ WF_vars(Servo(DestroyEnv)) /\ WF_vars(destructor_join)

\* gripper command shaping
SpecGripper == Init(GripperEnv) /\ [][Next(GripperEnv)]_vars

\* the constructor, then the background thread and a caller
NextWithConstruct(E) ==
    \/ _init_robot_enable(E)
    \/ _init_robot_send_recv(E)
    \/ _init_robot_check
    \/ constructor_start_thread
    \/ Next(E)

SpecConstruct == InitConstruct(ConstructEnv) /\ [][NextWithConstruct(ConstructEnv)]_vars

\* the background thread and a caller that sets a gain and resets to home
NextWithReset(E) ==
    \/ Servo(E)
    \/ \E new_gain \in E.gains : set_gain(new_gain)
    \/ reset_to_home_begin(E)
    \/ reset_to_home_set_gain
    \/ reset_to_home_set_eef_cmd(E)
    \/ reset_to_home_end

SpecReset == Init(ResetEnv) /\ [][NextWithReset(ResetEnv)]_vars

\* the background thread and a caller that sets a gain and sets the arm to
\* damping
NextWithDamping(E) ==
    \/ Servo(E)
    \/ \E new_gain \in E.gains : set_gain(new_gain)
    \/ set_to_damping_set_gain(E)
    \/ set_to_damping_set_eef_cmd(E)
    \/ set_to_damping_return

SpecDamping == Init(DampingEnv) /\ [][NextWithDamping(DampingEnv)]_vars

\* the background thread and a caller that sets a gain, resets to home and
\* destroys the controller
NextWithPause(E) ==
    \/ Servo(E)
    \/ \E new_gain \in E.gains : set_gain(new_gain)
    \/ reset_to_home_begin(E)
    \/ reset_to_home_set_gain
    \/ reset_to_home_set_eef_cmd(E)
    \/ reset_to_home_end
    \/ destructor_set_gain(E)
    \/ destructor_zero_cmd(E)
    \/ destructor_set_destroy
    \/ destructor_join

SpecPause == Init(PauseEnv) /\ [][NextWithPause(PauseEnv)]_vars

\* the background thread is scheduled as long as it can take a step
FairPause == SpecPause /\ WF_vars(Servo(PauseEnv))

\* ticks whose frames may not go out
SpecTransmit == Init(TransmitEnv) /\ [][Next(TransmitEnv)]_vars

\* Arx5HighLevel: its thread and a caller of set_high_cmd
NextHighLevel(E) ==
    \/ set_high_cmd(E)
    \/ _background_gravity_compensation_task(E)
    \/ high_send_recv_once(E)

SpecHighLevel == Init(HighEnv) /\ [][NextHighLevel(HighEnv)]_vars

\* the background thread step by step, and a caller of set_gain and
\* get_joint_state
NextTelemetry(E) ==
    \/ ServoStepwise(E)
    \/ \E new_gain \in E.gains : set_gain(new_gain)
    \/ get_joint_state

SpecTelemetry == Init(TelemetryEnv) /\ [][NextTelemetry(TelemetryEnv)]_vars

(***************************************************************************)
(* Properties                                                              *)
(***************************************************************************)
\* the shaping step of _send_recv has just run
shaping_step == servo_pc = "update" /\ servo_pc' = "send_recv"

\* C1: once emergency has been entered, the servo thread keeps transmitting:
\* a set-point frame with kp = 0 on every joint, the emergency kd profile and
\* zero velocity and torque is eventually put on the bus (and so again and again).
C1_EmergencyKeepsSendingDamping ==
    [](emergency # "none" =>
          <>(/\ sent_motor_cmd.kp = Vec6Zero
             /\ sent_motor_cmd.kd = emergency_gain.kd
             /\ sent_motor_cmd.vel = Vec6Zero
             /\ sent_motor_cmd.current = Vec6Zero))

\* C2: over-current protection has entered emergency exactly when the
\* over-current condition has held on more than over_current_cnt_max
\* consecutive ticks, and _over_current_cnt is the length of the current run
\* of over-current ticks (a clean tick resets it to 0).
C2_OverCurrentTripsAfterStreak ==
    /\ _over_current_cnt = over_current_streak
    /\ (emergency = "over_current") <=> (over_current_streak > over_current_cnt_max)

\* C2 witness: emergency was entered on the (over_current_cnt_max + 1)-th
\* consecutive over-current tick
C2_Witness ==
    /\ emergency = "over_current"
    /\ over_current_streak = over_current_cnt_max + 1
    /\ over_current(_joint_state)

\* C3: set_gain(new) with the current kp zero, new.kp non-zero and a position
\* error above 0.2 rad on some joint leaves the gain unchanged and clears
\* _background_send_recv_running; every other call stores new and leaves the
\* flag alone.
C3_SetGainRefusesUnsafeTransition ==
    [][\A new_gain \in ShapingEnv.gains :
          set_gain(new_gain) =>
             IF /\ IsZero(_gain.kp)
                /\ ~IsZero(new_gain.kp)
                /\ \E i \in Joints :
                      Abs(_joint_state.pos[i] - _output_joint_cmd.pos[i]) > error_threshold
             THEN _gain' = _gain /\ _background_send_recv_running' = FALSE
             ELSE /\ _gain' = new_gain
                  /\ _background_send_recv_running' = _background_send_recv_running]_vars

\* C3 witness: a call was refused, with the damping gain still stored
C3_Witness ==
    /\ ~_background_send_recv_running
    /\ IsZero(_gain.kp)
    /\ \E i \in Joints : Abs(_joint_state.pos[i] - _output_joint_cmd.pos[i]) > error_threshold

\* C4: after the shaping step, every joint with kp > 0 has its commanded
\* position inside [joint_pos_min, joint_pos_max].
C4_OutputPosWithinLimits ==
    servo_pc = "send_recv" =>
        \A i \in Joints :
            _gain.kp[i] > 0 =>
                /\ joint_pos_min[i] <= _output_joint_cmd.pos[i]
                /\ _output_joint_cmd.pos[i] <= joint_pos_max[i]

\* C4 witness: with kp > 0 the second joint has been driven onto its lower
\* limit by a solver result below the limit
C4_Witness ==
    /\ servo_pc = "send_recv"
    /\ _gain.kp[2] > 0
    /\ _output_joint_cmd.pos[2] = joint_pos_min[2]
    /\ _input_joint_cmd.pos[2] = joint_pos_min[2]
    /\ _joint_state.pos[2] > joint_pos_min[2]

\* C5: a shaping step moves the commanded position of every joint with
\* kp > 0 by at most joint_vel_max * controller_dt.
C5_OutputStepWithinVelLimit ==
    [][shaping_step =>
          \A i \in Joints :
              _gain.kp[i] > 0 =>
                  Abs(_output_joint_cmd'.pos[i] - _output_joint_cmd.pos[i])
                      <= joint_vel_max[i] * controller_dt]_vars

\* C5 witness: the first joint, commanded further away than one step allows,
\* has advanced by exactly one step
C5_Witness ==
    /\ servo_pc = "send_recv"
    /\ _gain.kp[1] > 0
    /\ _output_joint_cmd.pos[1] = joint_vel_max[1] * controller_dt
    /\ _input_joint_cmd.pos[1] > joint_vel_max[1] * controller_dt

\* C6: a shaping step leaves, for every joint with kp = 0, the commanded
\* position equal to the measured position it read (which the sanity check
\* has admitted).
C6_ZeroKpHoldsMeasuredPos ==
    [][shaping_step =>
          \A i \in Joints :
              _gain.kp[i] = 0 => _output_joint_cmd'.pos[i] = _joint_state.pos[i]]_vars

\* C7: the commanded gripper opening is always within [0, gripper_width].
C7_GripperOutputWithinRange ==
    /\ 0 <= _output_joint_cmd.gripper_pos
    /\ _output_joint_cmd.gripper_pos <= gripper_width

\* C7 witness: with gripper_kp = 0 a readout below closed was shaped to 0
C7_Witness ==
    /\ servo_pc = "send_recv"
    /\ _gain.gripper_kp = 0
    /\ _joint_state.gripper_pos < 0
    /\ _output_joint_cmd.gripper_pos = 0

\* C8: the commanded torque of every joint is within +-joint_torque_max, and
\* so is the torque carried by the frames last transmitted.
C8_TorqueWithinLimit ==
    \A i \in Joints :
        /\ Abs(_output_joint_cmd.torque[i]) <= joint_torque_max[i]
        /\ Abs(sent_motor_cmd.current[i])
              <= motor_current(robot_model, joint_torque_max[i], i)

\* C8 witness: a gravity-compensation torque below -joint_torque_max was
\* transmitted as -joint_torque_max
C8_Witness ==
    /\ _input_joint_cmd.torque[2] < -joint_torque_max[2]
    /\ _output_joint_cmd.torque[2] = -joint_torque_max[2]
    /\ sent_motor_cmd.current[2] = motor_current(robot_model, -joint_torque_max[2], 2)

\* the condition C9 names, with the position tolerance tol in 1e-5 rad
sanity_condition(tol) ==
    \/ \E i \in Joints :
        \/ Abs(_joint_state.pos[i]) * 100 > joint_pos_max[i] * 100 + tol
        \/ Abs(_input_joint_cmd.pos[i]) * 100 > joint_pos_max[i] * 100 + tol
        \/ Abs(_joint_state.torque[i]) > 100 * joint_torque_max[i]
    \/ _joint_state.gripper_pos < -gripper_width_tolerance
    \/ _joint_state.gripper_pos > gripper_width + gripper_width_tolerance

\* what C9 asks of a step of the sanity check
sanity_step_meets(tol) ==
    (servo_pc = "sanity" /\ servo_pc' # "sanity") =>
        IF sanity_condition(tol)
        THEN /\ emergency' = "sanity"
             /\ servo_pc' = "emergency"
             /\ _output_joint_cmd' = _output_joint_cmd
             /\ sent_motor_cmd' = sent_motor_cmd
        ELSE emergency' = emergency /\ servo_pc' = "calc"

\* C9 (amended): the sanity check enters emergency, before the tick shapes or
\* transmits anything, exactly when some |joint_state.pos[i]| or
\* |input_joint_cmd.pos[i]| exceeds joint_pos_max[i] + 3.14 rad, or some
\* |joint_state.torque[i]| exceeds 100 * joint_torque_max[i], or
\* joint_state.gripper_pos is outside [-0.005, gripper_width + 0.005].
C9_SanityCheckTolerance314 == [][sanity_step_meets(314000)]_vars

\* C9 witness: emergency entered on a reading of joint_pos_max + 3.141 rad
C9_Witness ==
    /\ emergency = "sanity"
    /\ _joint_state.pos[2] = joint_pos_max[2] + sanity_pos_tolerance + 1

\* C9 as stated: the same with the position tolerance pi (3.14159 rad)
C9_SanityCheckTolerancePi == [][sanity_step_meets(314159)]_vars

\* C10: a get_gain() call made after emergency has been entered returns, and
\* what it returns is the emergency damping profile.
C10_GetGainReturnsAfterEmergency ==
    [](((emergency # "none") /\ caller_pc = "get_gain") =>
          <>(caller_pc = "idle" /\ _gain = emergency_gain))

\* the step of _calc_joint_cmd that ran to its end or into the emergency state
calc_step == servo_pc = "calc" /\ servo_pc' \in {"update", "emergency"}

\* squared norm of a pose, in mm^2 and mrad^2
norm_sq(pose) ==
    pose[1]*pose[1] + pose[2]*pose[2] + pose[3]*pose[3]
    + pose[4]*pose[4] + pose[5]*pose[5] + pose[6]*pose[6]

\* C11: a tick whose interpolated _output_eef_cmd.pose_6d has norm < 0.01
\* enters the emergency state in that tick, and neither then nor later is a
\* joint command derived from that pose written to _input_joint_cmd or
\* put on the bus
C11_ZeroPoseEntersEmergency ==
    [][/\ (calc_step /\ norm_sq(_output_eef_cmd'.pose_6d) < 10 * 10)
            => /\ servo_pc' = "emergency"
               /\ emergency' = "eef_zero"
               /\ _input_joint_cmd'.pos = _input_joint_cmd.pos
               /\ _input_joint_cmd'.gripper_pos = _input_joint_cmd.gripper_pos
               /\ sent_motor_cmd' = sent_motor_cmd
       /\ emergency = "eef_zero"
            => /\ _input_joint_cmd'.pos = _input_joint_cmd.pos
               /\ _input_joint_cmd'.gripper_pos = _input_joint_cmd.gripper_pos
               /\ sent_motor_cmd' = sent_motor_cmd]_vars

\* a tick has interpolated the commanded near-zero pose, after an earlier tick
\* had written a joint command from inverse kinematics
C11_Witness ==
    /\ emergency = "eef_zero"
    /\ _output_eef_cmd.pose_6d = PoseNearZero
    /\ _input_joint_cmd.pos # Vec6Zero

\* C12: set_eef_cmd(new) with new.timestamp # 0 and new.timestamp earlier than
\* the clock reading of the call changes none of _input_eef_cmd,
\* _interp_start_eef_cmd and _output_eef_cmd: the stored command and the start
\* of its segment only ever change to a command that is not stale when it is
\* stored, and the output changes only in the interpolation step of a tick
C12_StaleCmdRejected ==
    [][/\ (_input_eef_cmd' # _input_eef_cmd \/ _interp_start_eef_cmd' # _interp_start_eef_cmd)
            => /\ _input_eef_cmd'.timestamp = 0 \/ _input_eef_cmd'.timestamp >= get_timestamp
               /\ _interp_start_eef_cmd' = _output_eef_cmd
       /\ _output_eef_cmd' # _output_eef_cmd => calc_step]_vars

\* the way point stamped two periods after the first tick is offered after
\* that time, while the later way point is the stored command
C12_Witness ==
    /\ process_alive
    /\ _cmd_mutex = "free"
    /\ get_timestamp > WayPointB.timestamp
    /\ _input_eef_cmd.pose_6d = PoseC
    /\ _input_eef_cmd.timestamp = WayPointC.timestamp
    /\ get_timestamp <= _input_eef_cmd.timestamp
    /\ _output_eef_cmd.pose_6d # PoseC

\* C13: every set_eef_cmd(new) that is accepted (new.timestamp = 0 or not
\* earlier than the clock reading of the call) leaves _input_eef_cmd equal to
\* new with gripper_vel and gripper_torque zero and _interp_start_eef_cmd equal
\* to the _output_eef_cmd of the moment of the call, both in one step that
\* is not a step of the tick's interpolation
C13_AcceptedCmdStoredAtomically ==
    [][(_input_eef_cmd' # _input_eef_cmd \/ _interp_start_eef_cmd' # _interp_start_eef_cmd)
          => /\ \E new \in InterpEnv.cmds :
                  /\ new.timestamp = 0 \/ new.timestamp >= get_timestamp
                  /\ _input_eef_cmd' = [new EXCEPT !.gripper_vel = 0, !.gripper_torque = 0]
             /\ _interp_start_eef_cmd' = _output_eef_cmd
             /\ _output_eef_cmd' = _output_eef_cmd
             /\ servo_pc' = servo_pc]_vars

\* the command given with gripper_vel = 5 is the stored one, and the segment
\* starts from the output of the tick during which it was stored
C13_Witness ==
    /\ _input_eef_cmd.timestamp = WayPointC.timestamp
    /\ _input_eef_cmd.pose_6d = PoseC
    /\ _input_eef_cmd.gripper_vel = 0
    /\ _interp_start_eef_cmd = _output_eef_cmd
    /\ _interp_start_eef_cmd.timestamp = now
    /\ servo_pc = "send_recv"

\* C14: a tick that finds _input_eef_cmd.timestamp = 0 gives _output_eef_cmd
\* the pose_6d and gripper_pos of _input_eef_cmd and the timestamp now, in that
\* tick, whatever _output_eef_cmd was before
C14_ZeroTimestampNoInterpolation ==
    [][(calc_step /\ _input_eef_cmd.timestamp = 0)
          => /\ _output_eef_cmd'.pose_6d = _input_eef_cmd.pose_6d
             /\ _output_eef_cmd'.gripper_pos = _input_eef_cmd.gripper_pos
             /\ _output_eef_cmd'.timestamp = now]_vars

\* the immediate command was stored while the output was at the home pose,
\* and the tick after that has put the output on the commanded pose
C14_Witness ==
    /\ servo_pc = "update"
    /\ _input_eef_cmd.timestamp = 0
    /\ _interp_start_eef_cmd.pose_6d = PoseHome
    /\ _interp_start_eef_cmd.timestamp = now - controller_dt
    /\ _output_eef_cmd.pose_6d = PoseC
    /\ _output_eef_cmd.gripper_pos = 20850
    /\ _output_eef_cmd.timestamp = now

\* whether x is start * (1 - alpha) + target * alpha for
\* alpha = (t - t0) / (t1 - t0), up to the rounding of x to a whole unit
is_interpolated(x, start, target, t0, t1, t) ==
    Abs(x * (t1 - t0) - (start * (t1 - t) + target * (t - t0))) < t1 - t0

\* C15: a tick with _input_eef_cmd.timestamp # 0 and now <= that timestamp
\* gives _output_eef_cmd the pose_6d and gripper_pos
\* (1 - alpha) * _interp_start_eef_cmd + alpha * _input_eef_cmd, component by
\* component, with alpha = (now - start.timestamp) / (input.timestamp -
\* start.timestamp); halfway through the segment that is the midpoint
C15_LinearInterpolation ==
    [][(calc_step /\ _input_eef_cmd.timestamp # 0 /\ now <= _input_eef_cmd.timestamp)
          => LET t0 == _interp_start_eef_cmd.timestamp
                 t1 == _input_eef_cmd.timestamp
             IN  /\ t0 <= now /\ t0 < t1
                 /\ \A k \in 1..6 :
                       is_interpolated(_output_eef_cmd'.pose_6d[k],
                                       _interp_start_eef_cmd.pose_6d[k],
                                       _input_eef_cmd.pose_6d[k], t0, t1, now)
                 /\ is_interpolated(_output_eef_cmd'.gripper_pos,
                                    _interp_start_eef_cmd.gripper_pos,
                                    _input_eef_cmd.gripper_pos, t0, t1, now)
                 /\ 2 * (now - t0) = t1 - t0
                       => /\ \A k \in 1..6 :
                               Abs(2 * _output_eef_cmd'.pose_6d[k]
                                   - (_interp_start_eef_cmd.pose_6d[k]
                                      + _input_eef_cmd.pose_6d[k])) <= 1
                          /\ Abs(2 * _output_eef_cmd'.gripper_pos
                                 - (_interp_start_eef_cmd.gripper_pos
                                    + _input_eef_cmd.gripper_pos)) <= 1]_vars

\* halfway between the home pose, left at the first tick, and the way point
\* two periods later
C15_Witness ==
    /\ servo_pc = "update"
    /\ _interp_start_eef_cmd.pose_6d = PoseHome
    /\ _interp_start_eef_cmd.timestamp = InitNow
    /\ _input_eef_cmd.pose_6d = PoseB
    /\ _input_eef_cmd.timestamp = WayPointB.timestamp
    /\ now = InitNow + controller_dt
    /\ _output_eef_cmd.pose_6d = <<275, 50, 180, 0, 250, 0>>
    /\ _output_eef_cmd.gripper_pos = 20850
    /\ _output_eef_cmd.timestamp = now

\* a timed command is the stored one (the controller starts with a command
\* stamped before InitNow), and the background loop is running
timed_cmd_in_progress ==
    /\ _input_eef_cmd.timestamp > InitNow
    /\ process_alive
    /\ emergency = "none"
    /\ _background_send_recv_running

\* C16: if a command with timestamp # 0 has been accepted and none is accepted
\* after it, the running loop reaches a tick with now > that timestamp, and
\* from then on _output_eef_cmd has the pose_6d and gripper_pos of
\* _input_eef_cmd
C16_OutputReachesTargetAndHolds ==
    \A cmd \in {supported_eef_cmd(WayPointB), supported_eef_cmd(WayPointC)} :
        <>[](timed_cmd_in_progress /\ _input_eef_cmd = cmd)
           => <>[](/\ now > cmd.timestamp
                   /\ _output_eef_cmd.pose_6d = cmd.pose_6d
                   /\ _output_eef_cmd.gripper_pos = cmd.gripper_pos)

\* the clock has passed the later way point, whose timestamp no tick met, and
\* the output is on it
C16_Witness ==
    /\ timed_cmd_in_progress
    /\ _input_eef_cmd = supported_eef_cmd(WayPointC)
    /\ now > WayPointC.timestamp
    /\ _interp_start_eef_cmd.pose_6d # PoseC
    /\ _output_eef_cmd.pose_6d = PoseC
    /\ _output_eef_cmd.gripper_pos = WayPointC.gripper_pos

\* C17: in every tick, each pose axis i with kp[i] > 0 moves _output_eef_cmd
\* by at most ee_vel_max[i] * controller_dt from the previous output, whatever
\* pose and timestamp were commanded, and each axis with kp[i] = 0 is held at
\* the forward-kinematics pose of the arm (the home pose for the arm at rest
\* of InterpEnv)
C17_EEFStepWithinVelLimit ==
    [][calc_step
          => \A i \in 1..6 :
                IF _gain.kp[i] > 0
                THEN 10 * Abs(_output_eef_cmd'.pose_6d[i] - _output_eef_cmd.pose_6d[i])
                        <= ee_vel_max[i] * controller_dt
                ELSE \E fk \in FKResults : _output_eef_cmd'.pose_6d[i] = fk[i]]_vars

\* C18: commands are not queued.  While commands stored since the last tick
\* are unread, _input_eef_cmd is the last of them and the segment starts at
\* the output no earlier one has moved; the tick that follows computes its
\* output from that last command alone, so that a command stored and replaced
\* between two ticks leaves no trace
C18_LastStoredCmdWins ==
    [][/\ unread_eef_cmds # <<>>
            => /\ _input_eef_cmd = unread_eef_cmds[Len(unread_eef_cmds)]
               /\ _interp_start_eef_cmd = _output_eef_cmd
       /\ (calc_step /\ unread_eef_cmds # <<>>)
            => LET last == unread_eef_cmds[Len(unread_eef_cmds)]
               IN  IF last.timestamp = 0 \/ now > last.timestamp
                   THEN /\ _output_eef_cmd'.pose_6d = last.pose_6d
                        /\ _output_eef_cmd'.gripper_pos = last.gripper_pos
                   ELSE /\ \A k \in 1..6 :
                             is_interpolated(_output_eef_cmd'.pose_6d[k],
                                             _output_eef_cmd.pose_6d[k], last.pose_6d[k],
                                             _output_eef_cmd.timestamp, last.timestamp, now)
                        /\ is_interpolated(_output_eef_cmd'.gripper_pos,
                                           _output_eef_cmd.gripper_pos, last.gripper_pos,
                                           _output_eef_cmd.timestamp, last.timestamp, now)]_vars

\* between two ticks the immediate command was stored and then replaced by a
\* timed way point, which the interpolation of the second tick is about to read
C18_Witness ==
    /\ servo_pc = "calc"
    /\ now = InitNow + controller_dt
    /\ unread_eef_cmds = <<EEFState(0, PoseC, 20850, 0), WayPointB>>
    /\ _input_eef_cmd = WayPointB
    /\ _output_eef_cmd.pose_6d = PoseHome
    /\ _output_eef_cmd.timestamp = InitNow

\* the transmitting part of _send_recv has just run
transmit_step == servo_pc = "send_recv" /\ servo_pc' = "loop"

\* C19: the gain a successful set_gain(new) stores stays the value of _gain
\* until another set_gain (a caller's, or that of the emergency state), and the
\* tick that follows uses it: the shaping step limits the step of exactly the
\* joints with kp > 0 and holds the others at the measured position, the
\* gripper likewise, and the seven frames carry its kp, kd, gripper_kp and
\* gripper_kd
C19_SetGainVisibleToNextTick ==
    [][/\ _gain' # _gain
            => \/ servo_pc' = servo_pc /\ _gain' \in ShapingEnv.gains
               \/ emergency' # "none" /\ servo_pc' # servo_pc /\ _gain' = emergency_gain
       /\ shaping_step
            => /\ \A i \in Joints :
                     IF _gain.kp[i] > 0
                     THEN LET step == _input_joint_cmd.pos[i] - _output_joint_cmd.pos[i]
                              max_step == joint_vel_max[i] * controller_dt
                          IN  _output_joint_cmd'.pos[i] =
                                 clip_joint_pos(IF step > max_step
                                                THEN _output_joint_cmd.pos[i] + max_step
                                                ELSE IF step < -max_step
                                                THEN _output_joint_cmd.pos[i] - max_step
                                                ELSE _input_joint_cmd.pos[i], i)
                     ELSE _output_joint_cmd'.pos[i] = clip_joint_pos(_joint_state.pos[i], i)
               /\ IF _gain.gripper_kp > 0
                  THEN Abs(_output_joint_cmd'.gripper_pos - _output_joint_cmd.gripper_pos)
                          <= gripper_vel_max * controller_dt
                  ELSE _output_joint_cmd'.gripper_pos \in
                          {clip_gripper_pos(_joint_state.gripper_pos),
                           _output_joint_cmd.gripper_pos}
       /\ transmit_step
            => /\ sent_motor_cmd'.kp = _gain.kp
               /\ sent_motor_cmd'.kd = _gain.kd
               /\ sent_motor_cmd'.gripper_kp = _gain.gripper_kp
               /\ sent_motor_cmd'.gripper_kd = _gain.gripper_kd]_vars

\* set_gain(default_gain) was called while the output was held at the
\* measured position; the next tick has advanced the first joint by one
\* velocity-limited step and has sent frames that carry the default kp and kd
C19_Witness ==
    /\ servo_pc = "loop"
    /\ _gain = default_gain
    /\ _joint_state.pos[1] = 0
    /\ _output_joint_cmd.pos[1] = joint_vel_max[1] * controller_dt
    /\ sent_motor_cmd.pos[1] = joint_vel_max[1] * controller_dt
    /\ sent_motor_cmd.kp = default_kp
    /\ sent_motor_cmd.kd = default_kd
    /\ sent_motor_cmd.gripper_kp = default_gripper_kp
    /\ sent_motor_cmd.gripper_kd = default_gripper_kd

\* the steps of the destructor, by the positions of the caller thread
destructor_switches_gain == caller_pc = "idle" /\ caller_pc' = "destructor_zero"
destructor_zeroes_cmd == caller_pc = "destructor_zero" /\ caller_pc' = "destructor_sleep"
destructor_sets_flag == caller_pc = "destructor_sleep" /\ caller_pc' = "destructor_join"
destructor_joins == caller_pc = "destructor_join" /\ caller_pc' = "destroyed"

\* C20, as stated: destruction sets _destroy_background_threads = true first,
\* then switches the gain to the damping profile, zeroes the velocity and
\* torque commands, sleeps 2 s and joins the background thread
C20_DestroyFlagSetFirst ==
    [][/\ destructor_switches_gain
            => _destroy_background_threads /\ _gain'.kp = Vec6Zero
       /\ destructor_zeroes_cmd
            => /\ _destroy_background_threads
               /\ _input_joint_cmd'.vel = Vec6Zero
               /\ _input_joint_cmd'.torque = Vec6Zero
               /\ sleep_until' = now + destructor_sleep_ms
       /\ destructor_joins
            => now >= sleep_until /\ servo_pc = "exited"]_vars

\* C20, as the code has it: destruction switches the gain to the damping
\* profile of the destructor (kp = 0), then zeroes the velocity and torque
\* commands and switches gravity compensation off, then sleeps 2 s, and only
\* then sets _destroy_background_threads = true and joins the background
\* thread; nothing else sets the flag
C20_DestroyFlagSetAfterSleep ==
    [][/\ caller_pc' # caller_pc
            => \/ destructor_switches_gain
               \/ destructor_zeroes_cmd
               \/ destructor_sets_flag
               \/ destructor_joins
       /\ destructor_switches_gain
            => /\ ~_destroy_background_threads'
               /\ _gain'.kp = Vec6Zero /\ _gain'.gripper_kp = 0
               /\ _gain'.kd = <<3 * default_kd[1], 3 * default_kd[2], 3 * default_kd[3],
                                (3 * default_kd[4]) \div 2, default_kd[5], default_kd[6]>>
       /\ destructor_zeroes_cmd
            => /\ ~_destroy_background_threads'
               /\ _gain.kp = Vec6Zero
               /\ _input_joint_cmd'.vel = Vec6Zero
               /\ _input_joint_cmd'.torque = Vec6Zero
               /\ ~_enable_gravity_compensation'
               /\ sleep_until' = now + destructor_sleep_ms
       /\ _destroy_background_threads' # _destroy_background_threads
            => /\ destructor_sets_flag
               /\ _destroy_background_threads'
               /\ now >= sleep_until
               /\ _gain.kp = Vec6Zero
               /\ _input_joint_cmd.vel = Vec6Zero
               /\ _input_joint_cmd.torque = Vec6Zero
       /\ destructor_joins
            => _destroy_background_threads /\ servo_pc = "exited"]_vars

\* the destructor has returned: two seconds after it began, the background
\* thread has left its loop, and the last frames on the bus carry the
\* destructor's damping gain and no torque
C20_Witness ==
    /\ caller_pc = "destroyed"
    /\ servo_pc = "exited"
    /\ _destroy_background_threads
    /\ now >= InitNow + destructor_sleep_ms
    /\ sent_motor_cmd.kp = Vec6Zero
    /\ sent_motor_cmd.kd = destructor_gain.kd
    /\ sent_motor_cmd.current = Vec6Zero

\* C21: outside the emergency state the background thread examines
\* _destroy_background_threads at the loop condition only, once per tick,
\* leaves the loop at the first evaluation that finds it set, and join()
\* then returns; once the emergency state has been entered the thread never
\* leaves and join() never returns
C21_DestructionTerminatesUnlessEmergency ==
    /\ [][/\ (servo_pc = "loop" /\ _destroy_background_threads)
               => servo_pc' \in {"loop", "exited"} /\ now' = now
          /\ (servo_pc' = "exited" /\ servo_pc # "exited")
               => servo_pc = "loop" /\ _destroy_background_threads
          /\ emergency # "none"
               => emergency' # "none" /\ servo_pc' # "exited" /\ caller_pc' # "destroyed"]_vars
    /\ [](caller_pc = "destructor_join" /\ emergency = "none" /\ process_alive
            => <>(caller_pc = "destroyed" \/ emergency # "none" \/ ~process_alive))

\* join() has returned to the destructor of a controller that never was in
\* the emergency state
C21_Witness ==
    /\ caller_pc = "destroyed"
    /\ servo_pc = "exited"
    /\ emergency = "none"
    /\ _background_send_recv_running

\* the tick's _send_recv ends, and its frames did not go out
failed_transmit_step == servo_pc = "send_recv" /\ servo_pc' = "loop" /\ ~transmit_ok'

\* C22: when the transmit step of a tick fails, the tick leaves the command
\* state as it was: _output_joint_cmd and _output_eef_cmd have the values they
\* had when the tick began, and _joint_state is not published again
C22_FailedTransmitLeavesCommandState ==
    [][failed_transmit_step
         => /\ <<_output_joint_cmd', _output_eef_cmd'>> = tick_start_cmd
            /\ _joint_state' = _joint_state]_vars

\* _init_robot has found every joint position zero after its warm-up loop
init_check_step == caller_pc = "init_send_recv" /\ init_i > warm_up_last /\ caller_pc' # caller_pc

\* C23: construction fails, with the background thread not started and
\* _background_send_recv_running never set, if a DM motor enable handshake
\* fails or if all six joint positions read zero after the warm-up ticks;
\* only otherwise does the controller reach the running phase; every warm-up
\* tick is sent with kp = 0
C23_ConstructionFailsOnInitFailure ==
    [][/\ ~enable_DM_motor_ok'
            => /\ servo_pc' = "not_started"
               /\ ~_background_send_recv_running'
               /\ caller_pc' \in {"init_send_recv", "init_failed"}
       /\ (init_check_step /\ IsZero(_joint_state.pos)) => caller_pc' = "init_failed"
       /\ caller_pc' = "init_failed"
            => servo_pc' = "not_started" /\ ~_background_send_recv_running'
       /\ (init_check_step /\ caller_pc' = "init_done")
            => enable_DM_motor_ok /\ ~IsZero(_joint_state.pos)
       /\ (caller_pc = "init_send_recv" /\ init_i' = init_i + 1)
            => IsZero(sent_motor_cmd'.kp)]_vars

\* reset_to_home computes and sets the command of one loop pass
reset_command_step == caller_pc = "reset_set_gain" /\ caller_pc' = "reset_set_eef_cmd"

\* C24: the joint target of reset_to_home moves linearly from the joint state
\* at call time to pos = 0 on every joint and gripper_pos = gripper_width, the
\* gain it sets moves linearly from the gain at call time to the default gain
\* whatever the gain at call time, and the final command is held for 0.5 s
C24_ResetToHomeMovesToHomeAndDefaults ==
    [][/\ reset_command_step
            => /\ locals'.joint_cmd.pos =
                     [j \in Joints |->
                        at_alpha(locals.init_state.pos[j], 0, locals.i, locals.duration)]
               /\ locals'.joint_cmd.gripper_pos =
                     at_alpha(locals.init_state.gripper_pos, gripper_width,
                              locals.i, locals.duration)
               /\ _gain' = reset_gain([locals EXCEPT !.target_gain = default_gain])
       /\ (caller_pc = "reset_set_gain" /\ caller_pc' = "reset_hold")
            => sleep_until' >= now + reset_hold_ms]_vars

\* a tick's frames go out after set_to_damping has set its commands
transmit_after_damping ==
    /\ servo_pc = "send_recv"
    /\ servo_pc' = "loop"
    /\ transmit_ok'
    /\ \/ caller_pc = "damping_sleep"
       \/ locals = [returned |-> "set_to_damping"]

\* what C25 says of the gain and of the running flag: set_gain inside
\* set_to_damping never refuses and stores kp = 0, kd = default_kd without
\* touching _background_send_recv_running; when the call returns the flag has
\* the value it had at the call, kp is zero on every joint, and kd is
\* default_kd unless the emergency state was entered
damping_gain_and_flag ==
    /\ ~unsafe_gain_transition(_gain, damping_target_gain, _joint_state, _output_joint_cmd)
    /\ (caller_pc = "idle" /\ caller_pc' = "damping_set_eef_cmd")
         => /\ IsZero(_gain'.kp) /\ _gain'.kd = default_kd
            /\ _background_send_recv_running' = _background_send_recv_running
    /\ (caller_pc = "damping_sleep" /\ caller_pc' = "idle")
         => /\ _background_send_recv_running' = locals.running_at_call
            /\ IsZero(_gain'.kp)
            /\ emergency' = "none" => _gain'.kd = default_kd

\* C25 as stated: after set_to_damping the gain has kp = 0 and kd =
\* default_kd, the running flag is as it was, the call never fails with the
\* unsafe-gain-transition error, and the velocities and torques sent at the
\* following ticks are zero
C25_SetToDampingSendsZeroTorque ==
    [][/\ damping_gain_and_flag
       /\ transmit_after_damping
            => IsZero(sent_motor_cmd'.vel) /\ IsZero(sent_motor_cmd'.current)]_vars

\* C25, amended: the same, but the torques sent are zero only while gravity
\* compensation is disabled; with gravity compensation they are the clipped
\* inverse-dynamics torques of the joint state
C25_SetToDampingSendsZeroTorqueWithoutGravity ==
    [][/\ damping_gain_and_flag
       /\ transmit_after_damping
            => /\ IsZero(sent_motor_cmd'.vel)
               /\ ~_enable_gravity_compensation => IsZero(sent_motor_cmd'.current)
               /\ sent_motor_cmd'.current =
                     [i \in Joints |->
                        motor_current(robot_model,
                                      clip_torque(_input_joint_cmd.torque[i], i), i)]]_vars

\* C25 witness: set_to_damping has returned after the default gain was set,
\* with the loop running, and a tick has sent zero velocities and torques
C25_Witness ==
    /\ locals = [returned |-> "set_to_damping"]
    /\ caller_pc = "idle"
    /\ _gain = damping_target_gain
    /\ _background_send_recv_running
    /\ ~_enable_gravity_compensation
    /\ servo_pc = "loop"
    /\ now > InitNow + damping_sleep_ms
    /\ sent_motor_cmd.kp = Vec6Zero
    /\ IsZero(sent_motor_cmd.current)

\* the background thread is at the top of its loop and the flag is false
paused == servo_pc = "loop" /\ ~_background_send_recv_running

\* nothing a tick does happens in this step: no check, no shaping, no frame,
\* no new joint state
no_tick_work ==
    /\ UNCHANGED <<_joint_state, _output_joint_cmd, _output_eef_cmd, sent_motor_cmd,
                   _over_current_cnt, over_current_streak, emergency, filter_vars>>

\* the loop starts a tick only when it finds the flag true and the destroy
\* flag false, and leaves when it finds the destroy flag set, whatever the
\* running flag is
loop_honours_flags ==
    /\ (servo_pc = "loop" /\ servo_pc' = "over_current")
         => _background_send_recv_running /\ ~_destroy_background_threads
    /\ (servo_pc = "loop" /\ _destroy_background_threads)
         => servo_pc' \in {"loop", "exited"} /\ now' = now

\* C26 as stated: while _background_send_recv_running is false the thread stays
\* alive and does no tick work (no check, no shaping, no frame; _joint_state,
\* _output_joint_cmd and _output_eef_cmd unchanged); ticks resume when the flag
\* is true again, and the destroy flag is honoured while it is false
C26_NoTickWorkWhileFlagFalse ==
    [][/\ (~_background_send_recv_running /\ emergency = "none")
            => servo_pc' \in {servo_pc, "exited"} /\ no_tick_work
       /\ loop_honours_flags]_vars

\* C26, amended: from the loop iteration that finds the flag false the thread
\* stays alive and does no tick work; a tick that had begun when the flag was
\* cleared is completed. An iteration that finds the flag true (and the
\* destroy flag false) starts a tick, and one that finds the destroy flag set
\* ends the thread, also while the running flag is false.
C26_NoTickWorkFromNextIteration ==
    /\ [][/\ paused => servo_pc' \in {"loop", "exited"} /\ no_tick_work
          /\ loop_honours_flags]_vars
    /\ [](servo_pc = "loop"
             /\ (_background_send_recv_running \/ _destroy_background_threads)
             => <>(servo_pc # "loop"
                     \/ (~_background_send_recv_running /\ ~_destroy_background_threads)))

\* C26 witness: reset_to_home was called while the flag was false, has set it,
\* and the background thread is back in a tick
C26_Witness ==
    /\ caller_pc = "reset_set_eef_cmd"
    /\ locals.prev_running = FALSE
    /\ _background_send_recv_running
    /\ servo_pc = "send_recv"
    /\ emergency = "none"

(***************************************************************************)
(* Arx5HighLevel: set_high_cmd and the look-ahead                          *)
(***************************************************************************)
\* a call of set_high_cmd has just returned
set_high_cmd_step == submitted_high_cmd' # submitted_high_cmd

\* C27: after every set_high_cmd the stored input command carries the
\* timestamp get_timestamp() + _LOOK_AHEAD_TIME, whether the caller's
\* timestamp was zero or not, and its gripper velocity and torque are zero
C27_SetHighCmdDiscardsTimestampAndGripperRates ==
    [][set_high_cmd_step =>
          /\ _input_high_cmd'.timestamp = high_get_timestamp + _LOOK_AHEAD_TIME
          /\ _input_high_cmd'.gripper_vel = 0
          /\ _input_high_cmd'.gripper_torque = 0]_vars

\* a command with a timestamp and a gripper torque of its own, submitted
\* after the thread has run, is stored with the look-ahead timestamp
C27_Witness ==
    /\ submitted_high_cmd.t > 0
    /\ submitted_high_cmd.cmd.timestamp # 0
    /\ submitted_high_cmd.cmd.timestamp # submitted_high_cmd.t + _LOOK_AHEAD_TIME
    /\ submitted_high_cmd.cmd.gripper_torque # 0
    /\ _input_high_cmd.pose_6d = submitted_high_cmd.cmd.pose_6d
    /\ _input_high_cmd.timestamp = submitted_high_cmd.t + _LOOK_AHEAD_TIME
    /\ _input_high_cmd.gripper_torque = 0

\* x lies between a and b
between(a, x, b) == (a <= x /\ x <= b) \/ (b <= x /\ x <= a)

\* C28: when the thread of Arx5HighLevel starts a pass more than one period
\* before the stored target time, the output command before velocity
\* clipping lies between the previous output and the input and is not yet
\* the input
C28_OutputSmoothedOverLookAhead ==
    (/\ high_pc = "task"
     /\ high_get_timestamp + HIGH_LEVEL_DT < _input_high_cmd.timestamp
     /\ _output_high_cmd.pose_6d # _input_high_cmd.pose_6d)
    => LET output == look_ahead_output(_input_high_cmd, _output_high_cmd,
                                       high_get_timestamp)
       IN  /\ \A i \in Joints : between(_output_high_cmd.pose_6d[i], output.pose_6d[i],
                                        _input_high_cmd.pose_6d[i])
           /\ output.pose_6d # _input_high_cmd.pose_6d

(***************************************************************************)
(* Locking                                                                 *)
(***************************************************************************)
\* the background thread's next step locks _cmd_mutex, which it holds
servo_relocks_cmd_mutex ==
    servo_pc \in {"emergency", "emergency_send_recv"} /\ _cmd_mutex = "servo"

\* C29: no thread tries to lock a mutex it already holds and none is left
\* blocked on one, during and after entry into the emergency state as well:
\* the background thread is never about to lock _cmd_mutex while holding it,
\* and never ends up blocked in, or terminated by, such a lock
C29_NoThreadRelocksOrBlocksForever ==
    /\ ~servo_relocks_cmd_mutex
    /\ servo_pc \notin RelockOutcomes

\* a step of the caller's thread that writes the command block
caller_writes_command_block == servo_pc' = servo_pc /\ cmd_vars' # cmd_vars

\* C30: the command block is only accessed by a thread that holds _cmd_mutex:
\* a caller's call never writes _gain, the joint commands or the EEF commands
\* while the background thread holds _cmd_mutex
C30_CommandBlockAccessedUnderCmdMutex ==
    [][caller_writes_command_block => _cmd_mutex = "free"]_vars

(***************************************************************************)
(* The telemetry block                                                     *)
(***************************************************************************)
\* a call of set_gain that compared _joint_state.pos with the command:
\* it raised kp from zero, or it refused to and stopped the ticks
set_gain_reads_joint_state ==
    /\ servo_pc' = servo_pc
    /\ \/ IsZero(_gain.kp) /\ ~IsZero(_gain'.kp)
       \/ _background_send_recv_running /\ ~_background_send_recv_running'

\* get_joint_state has just returned
get_joint_state_step ==
    /\ locals' # locals
    /\ locals'.returned = "get_joint_state"

\* C31: _joint_state is written only by the background thread while it
\* holds _state_mutex, and no call on a caller's thread (get_joint_state, the
\* position check of set_gain) reads it while the background thread holds
\* _state_mutex, that is, between two writes of one receive step
C31_JointStateAccessedUnderStateMutex ==
    [][/\ _joint_state' # _joint_state
             => servo_pc' # servo_pc /\ "servo" \in {_state_mutex, _state_mutex'}
       /\ get_joint_state_step => _state_mutex = "free"
       /\ set_gain_reads_joint_state => _state_mutex = "free"]_vars

\* the background thread is not running: asleep at the end of a loop
\* iteration, or suspended in a lock() that is never granted
servo_suspended == servo_pc \in {"loop", "deadlocked"}

\* the background thread is between the shaping of the command and the
\* receive step: frames are being put on the bus, with their pacing sleeps
servo_transmits == servo_pc \in {"send_recv", "receive"}

\* C32: the background thread never holds _cmd_mutex and _state_mutex
\* together, and holds neither of them while it is suspended or while it
\* puts frames on the bus, in normal ticks and in the emergency state
C32_NoMutexHeldAcrossSleepOrTransmit ==
    /\ ~(_cmd_mutex = "servo" /\ _state_mutex = "servo")
    /\ (servo_suspended \/ servo_transmits)
          => (_cmd_mutex = "free" /\ _state_mutex = "free")

(***************************************************************************)
(* The assertions of the interpolation branch                              *)
(***************************************************************************)
\* the background thread is about to run _calc_joint_cmd on a timed command
timed_branch_evaluated == servo_pc = "calc" /\ _input_eef_cmd.timestamp # 0

\* C33: whenever a tick evaluates the interpolation branch of a command with
\* a timestamp, the clock is not before the segment start, the target time
\* is after the segment start, and, when alpha is computed, its denominator
\* is not zero and 0 <= alpha <= 1
C33_InterpolationAssertionsHold ==
    timed_branch_evaluated =>
        /\ interp_asserts(_input_eef_cmd, _interp_start_eef_cmd, now)
        /\ now <= _input_eef_cmd.timestamp =>
              /\ _input_eef_cmd.timestamp - _interp_start_eef_cmd.timestamp # 0
              /\ 0 <= now - _interp_start_eef_cmd.timestamp
              /\ now - _interp_start_eef_cmd.timestamp
                    <= _input_eef_cmd.timestamp - _interp_start_eef_cmd.timestamp

(***************************************************************************)
(* Inverse kinematics failure                                              *)
(***************************************************************************)
\* _calc_joint_cmd has just run to its end with a failed inverse kinematics
ik_failed_step == servo_pc = "calc" /\ servo_pc' = "update" /\ ~last_ik'.success

\* the frames of a tick whose inverse kinematics failed have just gone out
transmit_after_ik_failure ==
    /\ servo_pc = "send_recv"
    /\ servo_pc' = "loop"
    /\ ~last_ik.success
    /\ transmit_ok'

\* C34: a tick whose inverse kinematics fails leaves _input_joint_cmd and
\* both joint filters exactly as they were, goes on to shape the unchanged
\* command, and transmits the command so shaped
C34_FailedIKKeepsJointCommand ==
    [][/\ ik_failed_step =>
             /\ _input_joint_cmd' = _input_joint_cmd
             /\ _joint_pos_filter' = _joint_pos_filter
             /\ _joint_torque_filter' = _joint_torque_filter
       /\ (shaping_step /\ ~last_ik.success) =>
             /\ _input_joint_cmd = last_ik.before[1]
             /\ _output_joint_cmd' =
                   update_output_cmd(last_ik.before[1], _output_joint_cmd, _gain,
                                     _joint_state)
       /\ transmit_after_ik_failure =>
             /\ <<_input_joint_cmd, _joint_pos_filter, _joint_torque_filter>>
                   = last_ik.before
             /\ sent_motor_cmd' = send_motor_cmds(robot_model, _gain, _output_joint_cmd)]_vars

\* inverse kinematics failed in a tick that follows a successful one: the
\* joint command of the earlier tick has been shaped again and is about to
\* be transmitted
C34_Witness ==
    /\ servo_pc = "send_recv"
    /\ ~last_ik.success
    /\ _input_joint_cmd = last_ik.before[1]
    /\ _input_joint_cmd.pos # Vec6Zero
    /\ _joint_pos_filter # <<>>
    /\ _output_joint_cmd.pos # Vec6Zero

(***************************************************************************)
(* Gripper stall                                                           *)
(***************************************************************************)
\* the gripper opening after velocity and range clipping, before the stall
\* test, in the tick that is being shaped
shaped_gripper_pos(prev) ==
    clip_gripper_pos(clip_gripper_vel(_input_joint_cmd, prev, _gain, _joint_state))

\* the sensed gripper torque is above half its limit and the shaped motion
\* from prev has its sign
pushes_against_stall(prev) ==
    /\ 2 * Abs(_joint_state.gripper_torque) > gripper_torque_max
    /\ \/ shaped_gripper_pos(prev) > prev.gripper_pos /\ _joint_state.gripper_torque > 0
       \/ shaped_gripper_pos(prev) < prev.gripper_pos /\ _joint_state.gripper_torque < 0

\* C35: at every tick where |gripper_torque| > gripper_torque_max / 2 and
\* the shaped gripper motion has the sign of the sensed torque, the output
\* gripper_pos keeps its value of the previous tick; in every other case it
\* is the shaped gripper_pos
C35_GripperStallFreezesOutput ==
    [][shaping_step =>
          _output_joint_cmd'.gripper_pos =
              IF pushes_against_stall(_output_joint_cmd)
              THEN _output_joint_cmd.gripper_pos
              ELSE shaped_gripper_pos(_output_joint_cmd)]_vars

\* a tick has been shaped while the gripper motor pushed at more than half
\* its limit in the direction of the commanded motion: the output kept the
\* opening it had when the tick began
C35_Witness ==
    /\ servo_pc = "send_recv"
    /\ tick_start_cmd # <<>>
    /\ pushes_against_stall(tick_start_cmd[1])
    /\ shaped_gripper_pos(tick_start_cmd[1]) # tick_start_cmd[1].gripper_pos
    /\ _output_joint_cmd.gripper_pos = tick_start_cmd[1].gripper_pos

(***************************************************************************)
(* Telemetry slots                                                         *)
(***************************************************************************)
\* the torque of arm joint i, had its current been read from the given slot
torque_from_slot(model, msg, i, slot) ==
    LET cur == msg[slot].current_actual_float
        ty == motor_type(model)[i]
    IN  IF ty = "EC_A4310"
        THEN quot(quot(cur * torque_constant_EC_A4310, 1000) * torque_constant_EC_A4310, 1000)
        ELSE IF ty = "DM_J4310"
        THEN quot(cur * torque_constant_DM_J4310, 1000)
        ELSE quot(cur * torque_constant_DM_J4340, 1000)

\* the receive step of _send_recv has just published the snapshot
receive_step == servo_pc = "receive_torque" /\ servo_pc' = "loop"

\* C36: at every receive step the position, velocity and torque published
\* for arm joint i all come from slot {0,1,3,4,5,6}[i] of the snapshot, and
\* those of the gripper from slot 7
C36_JointValuesFromOneSlot ==
    [][receive_step =>
          /\ \A i \in Joints :
                /\ _joint_state'.pos[i] = recv_motor_msg[pos_slot[i]].angle_actual_rad
                /\ _joint_state'.vel[i] = recv_motor_msg[pos_slot[i]].speed_actual_rad
                /\ _joint_state'.torque[i] =
                      torque_from_slot(robot_model, recv_motor_msg, i, pos_slot[i])
          /\ _joint_state'.gripper_pos =
                quot(recv_motor_msg[gripper_slot].angle_actual_rad * gripper_width,
                     gripper_open_readout)
          /\ _joint_state'.gripper_vel =
                quot(recv_motor_msg[gripper_slot].speed_actual_rad * gripper_width,
                     gripper_open_readout)
          /\ _joint_state'.gripper_torque =
                quot(recv_motor_msg[gripper_slot].current_actual_float
                        * torque_constant_DM_J4310, 1000)]_vars

(***************************************************************************)
(* Range of the joint command                                              *)
(***************************************************************************)
\* the branch of _check_joint_state_sanity that looks at the command
command_sanity_violated(in_cmd) ==
    \E i \in Joints :
        \/ Abs(in_cmd.pos[i]) > joint_pos_max[i] + sanity_pos_tolerance
        \/ Abs(in_cmd.pos[i]) < joint_pos_min[i] - sanity_pos_tolerance

\* C37: after init every joint of _input_joint_cmd.pos is within
\* [joint_pos_min, joint_pos_max], so the branch of the sanity check that
\* looks at the command is never what enters the emergency state
C37_InputJointCmdWithinLimits ==
    /\ \A i \in Joints :
          /\ joint_pos_min[i] <= _input_joint_cmd.pos[i]
          /\ _input_joint_cmd.pos[i] <= joint_pos_max[i]
    /\ ~command_sanity_violated(_input_joint_cmd)

\* the solver put the second joint 0.45 rad below its lower limit: the
\* stored joint command is at the limit
C37_Witness ==
    /\ servo_pc = "update"
    /\ last_ik.success
    /\ _joint_pos_filter # <<>>
    /\ _input_joint_cmd.pos[2] = joint_pos_min[2]
    /\ _input_joint_cmd.pos[1] = 20

(***************************************************************************)
(* The running flag across reset_to_home                                   *)
(***************************************************************************)
\* the positions of the caller inside reset_to_home
ResetPcs == {"reset_set_gain", "reset_set_eef_cmd", "reset_hold"}

\* a step out of set_gain by its exception: kp is zero, some joint is more
\* than the threshold away from its command, the gain is kept and the flag
\* is cleared
set_gain_refused_step ==
    /\ IsZero(_gain.kp)
    /\ \E i \in Joints :
          Abs(_joint_state.pos[i] - _output_joint_cmd.pos[i]) > error_threshold
    /\ _gain' = _gain
    /\ _background_send_recv_running' = FALSE

\* the last step of _init_robot
init_robot_done_step == caller_pc # "init_done" /\ caller_pc' = "init_done"

\* C38: reset_to_home remembers the flag it finds and sets it; the flag stays
\* true and the remembered value stays the same while the call is in its loop
\* or its final sleep; the step that returns from the call normally writes the
\* remembered value back, so a flag that was false at entry is false again;
\* and every step that changes the flag is the entry or the normal return of
\* reset_to_home, the end of _init_robot, or a set_gain that refuses.
C38_ResetToHomeRestoresRunningFlag ==
    [][/\ (caller_pc = "idle" /\ caller_pc' \in ResetPcs)
            => /\ _background_send_recv_running' = TRUE
               /\ locals'.prev_running = _background_send_recv_running
       /\ (caller_pc \in ResetPcs /\ caller_pc' \in ResetPcs)
            => /\ _background_send_recv_running' = TRUE
               /\ locals'.prev_running = locals.prev_running
       /\ (caller_pc = "reset_hold" /\ caller_pc' = "idle")
            => _background_send_recv_running' = locals.prev_running
       /\ (_background_send_recv_running' # _background_send_recv_running)
            => \/ caller_pc = "idle" /\ caller_pc' \in ResetPcs
               \/ caller_pc = "reset_hold" /\ caller_pc' = "idle"
               \/ init_robot_done_step
               \/ set_gain_refused_step]_vars

\* C38 witness: a reset_to_home entered with the loop paused has finished its
\* loop and its final sleep with the flag true, and is about to return
C38_Witness ==
    /\ caller_pc = "reset_hold"
    /\ now >= sleep_until
    /\ locals.prev_running = FALSE
    /\ _background_send_recv_running = TRUE

====
